---- MODULE Spec2Model ----
(***************************************************************************)
(* Hook scripts of the .claude repository as state machines.               *)
(*                                                                         *)
(*  - the workflow orchestrator (hooks/ and Library/macos/ variants) and   *)
(*    the parallel PostToolUse hook, which share a per-session record of   *)
(*    the guides already injected;                                         *)
(*  - the per-domain custom-reminder routers;                              *)
(*  - the metrics tracker and its counter document.                        *)
(*  - the workspace scaffolder scripts/init-workspace.py and the domain    *)
(*    detection of detect_domain;                                          *)
(*  - the metrics exporter and the unified context dispatcher.             *)
(*                                                                         *)
(* A prompt is a sequence of words; a trigger pattern list is matched at   *)
(* word level, case-insensitively, as re.search with \b...\b does on       *)
(* whole words.                                                            *)
(***************************************************************************)
EXTENDS Integers, Sequences, FiniteSets, TLC

VARIABLES
    sessionFile,   \* /tmp/claude-workflow-<hash>-<ppid>.json, by path
    guideFile,     \* <cwd>/.claude/guides/<name>.md, by cwd and name
    now,           \* time.time(), in seconds
    proc,          \* the hook invocations in flight, by process slot
    runs,          \* the number of hook invocations started
    last,          \* the last workflow-hook invocation that ended
    emitted,       \* how often each guide block was printed, by session file
    firstDebug,    \* what the first DEBUG prompt of a session led to
    debugReady,    \* whether a DEBUG prompt came while debug.md had content
    faulted,       \* whether a read or write of the session file failed
    wrote,         \* the (cwd, ppid) whose invocations have written a record
    metricsFile,   \* ~/.claude/monitoring/metrics-tracking.json
    metricsWritable, \* whether the metrics file can be opened for writing
    trackerRun,    \* the last metrics-tracker invocation
    routerRun,     \* the last custom-reminder invocation
    stdinRun,      \* the last hook invocation whose standard input was not JSON
    workspace,     \* the files of the workspace the scaffolder is run on
    host,          \* the optional Python packages installed on the machine
    initRun,       \* the last run of the scaffolder
    tree,          \* the workspace detect_domain is applied to
    detected,      \* what detect_domain returned for it
    exporter,      \* the metrics exporter process: its counters, gauges and baseline,
                   \* and the source values its last update saw
    sessions,      \* the totals over the session files under ~/.claude/projects
    contextCache,  \* ~/.claude/.context_cache
    projects,      \* the files and the modification time of each working directory
    dispatchRun,   \* the last invocation of the context dispatcher
    projectSessions, \* the session files ~/.claude/projects/<project>/<name>.jsonl
    timeCache,     \* ~/.claude/monitoring/time-cache.json
    timeRun        \* the last call of calculate_real_time_from_sessions

orchVars == <<sessionFile, guideFile, now, proc, runs, last, emitted, firstDebug, debugReady, faulted, wrote>>
history == <<last, emitted, firstDebug, debugReady, faulted>>
metricsVars == <<metricsFile, metricsWritable, trackerRun>>
routerVars == <<routerRun>>
stdinVars == <<stdinRun>>
scaffoldVars == <<workspace, host, initRun>>
detectVars == <<tree, detected>>
timeVars == <<projectSessions, timeCache, timeRun>>
exporterVars == <<exporter, sessions, timeVars>>
dispatcherVars == <<contextCache, projects, dispatchRun>>
restVars == <<stdinVars, scaffoldVars, detectVars, exporterVars, dispatcherVars>>
hookVars == <<orchVars, metricsVars, routerVars>>
vars == <<sessionFile, guideFile, now, proc, runs, last, emitted, firstDebug, debugReady, faulted, wrote,
          metricsFile, metricsWritable, trackerRun, routerRun, restVars>>

(***************************************************************************)
(* Bounds of the model.                                                    *)
(***************************************************************************)
MaxRuns == 2          \* hook invocations in one behaviour
MaxPromptWords == 1   \* words in a prompt
MaxTicks == 3         \* clock advances in one behaviour
MaxCount == 2         \* largest counter value an environment write stores
MaxTrackerRuns == 2   \* metrics-tracker invocations in one behaviour
MaxRouterRuns == 2    \* custom-reminder invocations in one behaviour
MaxInitRuns == 2      \* runs of the scaffolder
MaxOtherFiles == 2    \* indicator files besides the Apple ones in a workspace
MaxUpdates == 3       \* update_metrics calls of one exporter process
MaxExporterStarts == 2 \* exporter processes, one after the other
MaxSessionUse == 2    \* exchanges written to the session files
MaxDispatchRuns == 2  \* invocations of the context dispatcher
MaxMessages == 3      \* messages appended to the session files
MaxTimeCalls == 2     \* calls of calculate_real_time_from_sessions

Cwds == {"w1", "w2"}
Ppids == {1, 2}
Procs == {1, 2}
Vocabulary == {"Bug", "parallel"}

RECURSIVE SeqsUpTo(_, _)
SeqsUpTo(S, n) ==
    IF n = 0 THEN {<<>>}
    ELSE LET shorter == SeqsUpTo(S, n - 1)
         IN shorter \cup {Append(s, w) : s \in shorter, w \in S}

Prompts == SeqsUpTo(Vocabulary, MaxPromptWords)

(***************************************************************************)
(* Trigger patterns (re.search, re.IGNORECASE) at word level.              *)
(***************************************************************************)
Lower(w) ==
    CASE w = "Bug" -> "bug"
      [] w = "Create" -> "create"
      [] w = "Error" -> "error"
      [] w = "Fatal" -> "fatal"
      [] w = "Swift" -> "swift"
      [] OTHER -> w

HasWord(text, ws) == \E i \in DOMAIN text : Lower(text[i]) \in ws

\* "a b" and a\s+b: two adjacent words
HasAdjacent(text, as, bs) ==
    \E i \in 1..(Len(text) - 1) : Lower(text[i]) \in as /\ Lower(text[i + 1]) \in bs

\* a.*b: a word, then later a word
HasOrdered(text, as, bs) ==
    \E i \in DOMAIN text : \E j \in DOMAIN text :
        i < j /\ Lower(text[i]) \in as /\ Lower(text[j]) \in bs

DEBUG_PATTERNS(text) ==
    \/ HasWord(text, {"debug", "debugging", "bug"})
    \/ HasOrdered(text, {"what"}, {"wrong"}) \/ HasAdjacent(text, {"not"}, {"working"})
    \/ HasWord(text, {"crash", "exception", "error", "failed"})
    \/ HasOrdered(text, {"build"}, {"fail"}) \/ HasOrdered(text, {"compile", "runtime"}, {"error"})

INVESTIGATION_PATTERNS(text) ==
    \/ HasWord(text, {"investigate", "research", "analyze", "examine", "explore", "understand"})
    \/ HasAdjacent(text, {"figure", "find"}, {"out"}) \/ HasWord(text, {"explain"})
    \/ HasAdjacent(text, {"code"}, {"review"}) \/ HasWord(text, {"audit", "inspect"})
    \/ HasOrdered(text, {"data"}, {"flow"}) \/ HasWord(text, {"architecture"})
    \/ HasOrdered(text, {"system"}, {"design"})

ImplVerbs == {"implement", "build", "create", "develop", "code", "write", "add"}

IMPLEMENTATION_PATTERNS(text) ==
    \/ HasOrdered(text, ImplVerbs,
                  {"feature", "function", "component", "service", "module", "class", "view", "entity"})
    \/ HasAdjacent(text, {"make", "build", "create", "develop"}, {"this", "it", "the"})
    \/ HasAdjacent(text, {"let's", "please"}, ImplVerbs \ {"add"})
    \/ HasAdjacent(text, {"start"}, {"implementing", "building", "coding", "developing"})
    \/ HasWord(text, {"fix", "refactor", "optimize", "deploy", "update", "modify"})

PLANNING_PATTERNS(text) ==
    \/ HasOrdered(text, {"make", "create", "develop", "write", "build"}, {"plan"})
    \/ HasAdjacent(text, {"plan", "planning"}, {"out", "for", "the"})
    \/ HasAdjacent(text, {"implementation", "feature", "system", "architecture"}, {"plan"})
    \/ HasAdjacent(text, {"map"}, {"out"}) \/ HasWord(text, {"architect"})

BRAINSTORMING_PATTERNS(text) == HasWord(text, {"brainstorm", "brainstorming"})

DEEP_RESEARCH_PATTERNS(text) == HasAdjacent(text, {"deep"}, {"research"})

PARALLEL_PATTERNS(text) ==
    \/ HasWord(text, {"parallel", "concurrently", "simultaneously"})
    \/ HasAdjacent(text, {"multiple", "spawn", "launch"}, {"agents"})
    \/ HasWord(text, {"batch", "batches", "parallelize", "parallelise",
                      "parallelization", "parallelisation"})

check_patterns(text, category) ==
    CASE category = "DEBUG" -> DEBUG_PATTERNS(text)
      [] category = "INVESTIGATION" -> INVESTIGATION_PATTERNS(text)
      [] category = "IMPLEMENTATION" -> IMPLEMENTATION_PATTERNS(text)
      [] category = "PLANNING" -> PLANNING_PATTERNS(text)
      [] category = "BRAINSTORMING" -> BRAINSTORMING_PATTERNS(text)
      [] category = "DEEP_RESEARCH" -> DEEP_RESEARCH_PATTERNS(text)
      [] category = "PARALLEL" -> PARALLEL_PATTERNS(text)
      [] OTHER -> FALSE

(***************************************************************************)
(* Session record and guide files.                                         *)
(***************************************************************************)
SESSION_TIMEOUT == 14400
TickSeconds == 7200

GuideNames == {"FOUNDATION", "BRAINSTORMING", "DEEP_RESEARCH", "PLANNING",
               "IMPLEMENTATION", "DEBUG", "INVESTIGATION", "PARALLEL"}

\* the order of the checks of the main script
OrchestratorChecks ==
    <<"FOUNDATION", "BRAINSTORMING", "DEEP_RESEARCH", "PLANNING",
      "IMPLEMENTATION", "DEBUG", "INVESTIGATION", "PARALLEL">>

MacosOrchestratorChecks ==
    <<"FOUNDATION", "BRAINSTORMING", "DEEP_RESEARCH", "PLANNING",
      "IMPLEMENTATION", "DEBUG", "INVESTIGATION">>

Hooks == {"orchestrator", "macos_orchestrator", "parallel"}

\* hashlib.md5(cwd.encode()).hexdigest()[:12]; the two workspaces modelled
\* have different digests
cwd_hash(cwd) == IF cwd = "w1" THEN "5d0a8f3c1b2e" ELSE "c41e77a09d56"

\* a session file named after the workspace alone
get_session_file_cwd_only(cwd, ppid) == <<cwd_hash(cwd), 1>>

\* /tmp/claude-workflow-<cwd_hash>-<ppid>.json
get_session_file(cwd, ppid) == <<cwd_hash(cwd), ppid>>

SessionPaths == {<<cwd_hash(c), pp>> : c \in Cwds, pp \in Ppids}

\* guide_name of load_guide for each guide
GuideFileName(g) ==
    CASE g = "FOUNDATION" -> "always-active/foundation"
      [] g = "BRAINSTORMING" -> "brainstorming"
      [] g = "DEEP_RESEARCH" -> "deep-research"
      [] g = "PLANNING" -> "planning"
      [] g = "IMPLEMENTATION" -> "implementation"
      [] g = "DEBUG" -> "debug"
      [] g = "INVESTIGATION" -> "investigation"
      [] OTHER -> "parallel"

GuideFileNames == {GuideFileName(g) : g \in GuideNames}

AbsentFile == [state |-> "absent", injected |-> {}, mtime |-> 0]

\* a reader that never finds a record
get_injected_guides_none(f, readOk) == {}

\* get_injected_guides of hooks/workflow-orchestrator.py and hooks/parallel.py:
\* any exception (unreadable file, invalid JSON) gives the empty set
get_injected_guides(f, readOk) ==
    IF f.state # "absent" /\ readOk /\ f.state = "json" THEN f.injected ELSE {}

\* a reader that does not look at the age of the record
macos_get_injected_guides_no_timeout(f, readOk) ==
    IF f.state # "absent" /\ readOk /\ f.state = "json" THEN f.injected ELSE {}

\* get_injected_guides of Library/macos/hooks/workflow-orchestrator.py
macos_get_injected_guides(f, readOk) ==
    IF f.state # "absent" /\ now - f.mtime < SESSION_TIMEOUT
       /\ readOk /\ f.state = "json"
    THEN f.injected ELSE {}

\* load_guide: the content, or None when the file cannot be read
load_guide(cwd, guide_name) ==
    IF guideFile[cwd][guide_name] = "absent" THEN "None"
    ELSE guideFile[cwd][guide_name]

\* get_<guide>_prompt: None when load_guide gave None or ""
get_prompt(cwd, g) ==
    LET content == load_guide(cwd, GuideFileName(g))
    IN IF content = "None" \/ content = "empty" THEN "None" ELSE g

\* the guides of `checks` that the prompt asks for and whose file has content
Ready(checks, cwd, prompt) ==
    {g \in GuideNames :
        /\ \E i \in DOMAIN checks : checks[i] = g
        /\ (g = "FOUNDATION" \/ check_patterns(prompt, g))
        /\ get_prompt(cwd, g) # "None"}

\* the guide names whose block the main script appends to `triggered`
Triggered(checks, cwd, prompt, already_injected) ==
    LET Hit(g) == /\ g \notin already_injected
                  /\ (g = "FOUNDATION" \/ check_patterns(prompt, g))
                  /\ get_prompt(cwd, g) # "None"
    IN SelectSeq(checks, Hit)

Range(s) == {s[i] : i \in DOMAIN s}

Idle == [pc |-> "idle"]

InFlight == {p \in Procs : proc[p].pc # "idle"}

CanStart(p) == proc[p].pc = "idle" /\ runs < MaxRuns

Matched(prompt) == {c \in GuideNames : check_patterns(prompt, c)}

(***************************************************************************)
(* One invocation of a workflow hook, in the steps at which it touches     *)
(* the session file: read it (Begin), open it for writing, which truncates *)
(* it (Save), write the new record and print (Dump).                       *)
(***************************************************************************)
\* a record that keeps only what was there before
newly_injected_keeps_old(already_injected, triggered) == already_injected

\* newly_injected = already_injected | {name for name, _ in triggered}
newly_injected(already_injected, triggered) == already_injected \cup Range(triggered)

\* what an invocation knows once it has read the session file
Started(hook, checks, cwd, ppid, prompt, readOk, already, triggered) ==
    LET path == get_session_file(cwd, ppid)
        f == sessionFile[path]
    IN [pc |-> "save", hook |-> hook, path |-> path, cwd |-> cwd, ppid |-> ppid,
        fresh |-> (<<cwd, ppid>> \notin wrote),
        matched |-> Matched(prompt), already |-> already, triggered |-> triggered,
        readFailed |-> (f.state = "truncated" \/ (f.state = "json" /\ ~readOk)),
        recState |-> f.state, recInjected |-> f.injected,
        age |-> IF f.state = "absent" THEN 0 ELSE now - f.mtime,
        ready |-> Ready(checks, cwd, prompt)]

\* the invocation r ends: it prints the blocks of r.triggered and exits 0
Ended(r, writeFailed) ==
    /\ last' = [hook |-> r.hook, path |-> r.path, cwd |-> r.cwd, ppid |-> r.ppid,
                fresh |-> r.fresh, matched |-> r.matched,
                ready |-> r.ready, already |-> r.already, emitted |-> r.triggered,
                recState |-> r.recState, recInjected |-> r.recInjected,
                age |-> r.age, exit |-> 0]
    /\ emitted' = [emitted EXCEPT ![r.path] =
                     [g \in GuideNames |->
                        IF g \in Range(r.triggered) THEN @[g] + 1 ELSE @[g]]]
    /\ firstDebug' =
         IF r.hook # "parallel" /\ "DEBUG" \in r.matched /\ firstDebug[r.path] = "none"
         THEN [firstDebug EXCEPT ![r.path] =
                 IF "DEBUG" \in Range(r.triggered) THEN "printed" ELSE "silent"]
         ELSE firstDebug
    /\ debugReady' = [debugReady EXCEPT ![r.path] =
                        @ \/ (r.hook # "parallel" /\ "DEBUG" \in r.ready)]
    /\ faulted' = [faulted EXCEPT ![r.path] = @ \/ r.readFailed \/ writeFailed]

\* an invocation that prints something goes on to save; one that does not ends
BeginWith(p, r) ==
    /\ runs' = runs + 1
    /\ IF r.triggered = <<>>
       THEN Ended(r, FALSE) /\ UNCHANGED proc
       ELSE proc' = [proc EXCEPT ![p] = r] /\ UNCHANGED history
    /\ UNCHANGED <<sessionFile, guideFile, now, wrote, metricsVars, routerVars, restVars>>

\* main script of hooks/workflow-orchestrator.py, up to save_injected_guides
OrchestratorBegin(p, cwd, ppid, prompt, readOk) ==
    /\ CanStart(p)
    /\ LET already == get_injected_guides(sessionFile[get_session_file(cwd, ppid)], readOk)
           triggered == Triggered(OrchestratorChecks, cwd, prompt, already)
       IN BeginWith(p, Started("orchestrator", OrchestratorChecks, cwd, ppid, prompt,
                               readOk, already, triggered))

\* main script of Library/macos/hooks/workflow-orchestrator.py
MacosOrchestratorBegin(p, cwd, ppid, prompt, readOk) ==
    /\ CanStart(p)
    /\ LET already == macos_get_injected_guides(sessionFile[get_session_file(cwd, ppid)], readOk)
           triggered == Triggered(MacosOrchestratorChecks, cwd, prompt, already)
       IN BeginWith(p, Started("macos_orchestrator", MacosOrchestratorChecks, cwd, ppid,
                               prompt, readOk, already, triggered))

Tools == {"ExitPlanMode", "Edit"}

\* the guide names main of hooks/parallel.py injects: PARALLEL, unless the tool
\* is not ExitPlanMode, PARALLEL is recorded, or parallel.md cannot be read
ParallelTriggered(cwd, tool, already_injected) ==
    IF tool # "ExitPlanMode" THEN <<>>
    ELSE IF "PARALLEL" \in already_injected THEN <<>>
    ELSE IF load_guide(cwd, "parallel") = "None" THEN <<>>
    ELSE <<"PARALLEL">>

\* main of hooks/parallel.py, up to save_injected_guides
ParallelBegin(p, cwd, ppid, tool, readOk) ==
    /\ CanStart(p)
    /\ LET already == IF tool # "ExitPlanMode" THEN {}
                      ELSE get_injected_guides(sessionFile[get_session_file(cwd, ppid)], readOk)
           triggered == ParallelTriggered(cwd, tool, already)
       IN BeginWith(p, Started("parallel", <<>>, cwd, ppid, <<>>,
                               readOk \/ tool # "ExitPlanMode", already, triggered))

\* a save that waits while another invocation is writing the same file
Save_waits_for_writer(p, writeOk) ==
    /\ proc[p].pc = "save"
    /\ \A q \in Procs \ {p} : ~(proc[q].pc = "dump" /\ proc[q].path = proc[p].path)
    /\ sessionFile' = [sessionFile EXCEPT ![proc[p].path] =
                         [state |-> "truncated", injected |-> {}, mtime |-> now]]
    /\ proc' = [proc EXCEPT ![p].pc = "dump"]
    /\ wrote' = wrote \cup {<<proc[p].cwd, proc[p].ppid>>}
    /\ UNCHANGED <<history, guideFile, now, runs, metricsVars, routerVars, restVars>>

\* save_injected_guides, open(session_file, 'w'): the file is truncated; when
\* the open fails the exception is swallowed and the guides are printed
Save(p, writeOk) ==
    /\ proc[p].pc = "save"
    /\ IF writeOk
       THEN /\ sessionFile' = [sessionFile EXCEPT ![proc[p].path] =
                                 [state |-> "truncated", injected |-> {}, mtime |-> now]]
            /\ proc' = [proc EXCEPT ![p].pc = "dump"]
            /\ wrote' = wrote \cup {<<proc[p].cwd, proc[p].ppid>>}
            /\ UNCHANGED history
       ELSE /\ Ended(proc[p], TRUE)
            /\ proc' = [proc EXCEPT ![p] = Idle]
            /\ UNCHANGED <<sessionFile, wrote>>
    /\ UNCHANGED <<guideFile, now, runs, metricsVars, routerVars, restVars>>

\* save_injected_guides, json.dump, then the print of the guide blocks and exit
Dump(p) ==
    /\ proc[p].pc = "dump"
    /\ sessionFile' = [sessionFile EXCEPT ![proc[p].path] =
                         [state |-> "json",
                          injected |-> newly_injected(proc[p].already, proc[p].triggered),
                          mtime |-> now]]
    /\ Ended(proc[p], FALSE)
    /\ proc' = [proc EXCEPT ![p] = Idle]
    /\ UNCHANGED <<guideFile, now, runs, wrote, metricsVars, routerVars, restVars>>

\* time passes between invocations
Tick ==
    /\ InFlight = {}
    /\ now < MaxTicks * TickSeconds
    /\ now' = now + TickSeconds
    /\ UNCHANGED <<sessionFile, guideFile, proc, runs, history, wrote, metricsVars, routerVars, restVars>>

GuideFileStates == {"absent", "empty", "text"}

\* the user creates, empties or removes a guide file of a workspace
EditGuide(cwd, name, st) ==
    /\ InFlight = {}
    /\ guideFile[cwd][name] # st
    /\ guideFile' = [guideFile EXCEPT ![cwd][name] = st]
    /\ UNCHANGED <<sessionFile, now, proc, runs, history, wrote, metricsVars, routerVars, restVars>>

(***************************************************************************)
(* hooks/metrics-tracker.py.  A text is the sequence of its lines, a       *)
(* command or an output the sequence of its words.                         *)
(***************************************************************************)
Texts == {<<>>, <<"">>, <<"x">>, <<"x", "x">>, <<"", "x", "">>, <<"x", "", "x">>}
Commands == {<<"ls">>, <<"git", "commit">>, <<"sudo", "git", "commit">>, <<"git", "push">>}
Stdouts == {<<>>, <<"[", "main", "1a2b3c4", "]">>, <<"Create", "mode">>, <<"nothing">>}
Stderrs == {<<>>, <<"Error">>, <<"Fatal">>}
ToolNames == {"Edit", "Write", "Bash", "Read"}
Stdins == {"empty", "invalid", "object"}

CounterKeys ==
    {"commits_total", "lines_added", "lines_removed", "files_modified", "commands_blocked",
     "git_failures"}

\* the metrics file as a document: its kind, and the counters it holds
Document(kind, c) ==
    [kind |-> kind, commits_total |-> c, lines_added |-> c, lines_removed |-> c,
     files_modified |-> c, commands_blocked |-> c, git_failures |-> c, last_updated |-> 0]

MissingFile == Document("missing", 0)

FileKinds == {"missing", "unreadable", "invalid", "nokeys", "counters"}

\* what the file can be when the tracker starts: absent, not JSON, the JSON
\* object {}, a complete document, or a complete document that cannot be
\* opened for reading
MetricsFiles ==
    {Document(k, 0) : k \in {"missing", "invalid", "nokeys"}}
    \cup {Document(k, c) : k \in {"counters", "unreadable"}, c \in 0..MaxCount}

\* a tool_input or tool_response that is no JSON object has dict = FALSE; a
\* key the object lacks reads as the default of .get, the empty string
InputOf(dict, command, old_string, new_string, content) ==
    [dict |-> dict, command |-> command, old_string |-> old_string, new_string |-> new_string,
     content |-> content]

ResponseOf(dict, stdout, stderr) == [dict |-> dict, stdout |-> stdout, stderr |-> stderr]

\* no tool_input and no tool_response object
NoInput == InputOf(FALSE, <<>>, <<>>, <<>>, <<>>)
NoResponse == ResponseOf(FALSE, <<>>, <<>>)

\* an Edit that turns one line into two, and a commit that git reports
EditEvent == InputOf(TRUE, <<>>, <<"x">>, <<"x", "x">>, <<>>)
CommitEvent == InputOf(TRUE, <<"git", "commit">>, <<>>, <<>>, <<>>)
CommitResponse == ResponseOf(TRUE, <<"[", "main", "1a2b3c4", "]">>, <<>>)

ToolInputs(tool_name) ==
    {InputOf(FALSE, <<>>, <<>>, <<>>, <<>>)} \cup
    CASE tool_name = "Edit" -> {InputOf(TRUE, <<>>, o, n, <<>>) : o \in Texts, n \in Texts}
      [] tool_name = "Write" -> {InputOf(TRUE, <<>>, <<>>, <<>>, c) : c \in Texts}
      [] tool_name = "Bash" -> {InputOf(TRUE, c, <<>>, <<>>, <<>>) : c \in Commands}
      [] OTHER -> {}

ToolResponses(tool_name) ==
    {ResponseOf(FALSE, <<>>, <<>>)} \cup
    IF tool_name = "Bash" THEN {ResponseOf(TRUE, o, e) : o \in Stdouts, e \in Stderrs} ELSE {}

load_metrics(f) ==
    IF f.kind \in {"missing", "unreadable", "invalid"} THEN Document("counters", 0) ELSE f

save_metrics(metrics, stamp) == [metrics EXCEPT !.last_updated = stamp]

count_lines(text) ==
    LET inked == {i \in DOMAIN text : text[i] # ""}
    IN IF inked = {} THEN 0
       ELSE (CHOOSE i \in inked : \A j \in inked : j <= i)
            - (CHOOSE i \in inked : \A j \in inked : i <= j) + 1

Outcome(raised, updated, metrics) == [raised |-> raised, updated |-> updated, metrics |-> metrics]

\* metrics[key] += k, a KeyError when the document lacks the key
Add(metrics, key, k) ==
    IF metrics.kind # "counters" THEN Outcome(TRUE, FALSE, metrics)
    ELSE Outcome(FALSE, TRUE, [metrics EXCEPT ![key] = @ + k])

\* an Edit counted as new_string written and old_string deleted
TrackEdit_both_sides(metrics, tool_input) ==
    LET counted == Add(metrics, "files_modified", 1)
    IN IF counted.raised \/ ~tool_input.dict THEN Outcome(TRUE, FALSE, metrics)
       ELSE Add(Add(counted.metrics, "lines_added", count_lines(tool_input.new_string)).metrics,
                "lines_removed", count_lines(tool_input.old_string))

TrackEdit(metrics, tool_input) ==
    LET counted == Add(metrics, "files_modified", 1)
        old_lines == count_lines(tool_input.old_string)
        new_lines == count_lines(tool_input.new_string)
    IN IF counted.raised \/ ~tool_input.dict THEN Outcome(TRUE, FALSE, metrics)
       ELSE IF new_lines > old_lines
            THEN Add(counted.metrics, "lines_added", new_lines - old_lines)
       ELSE IF old_lines > new_lines
            THEN Add(counted.metrics, "lines_removed", old_lines - new_lines)
       ELSE counted

TrackWrite(metrics, tool_input) ==
    LET counted == Add(metrics, "files_modified", 1)
    IN IF counted.raised \/ ~tool_input.dict THEN Outcome(TRUE, FALSE, metrics)
       ELSE Add(counted.metrics, "lines_added", count_lines(tool_input.content))

\* "git commit" in command
GitCommitIn(command) ==
    \E i \in 1..(Len(command) - 1) : command[i] = "git" /\ command[i + 1] = "commit"

\* command.startswith("git ")
StartsWithGit(command) == Len(command) >= 2 /\ command[1] = "git"

\* the branch that counts stderr before stdout
TrackBash_stderr_first(metrics, tool_input, tool_response) ==
    LET stdout == IF tool_response.dict THEN tool_response.stdout ELSE <<>>
        stderr == IF tool_response.dict THEN tool_response.stderr ELSE <<>>
    IN IF ~tool_input.dict THEN Outcome(TRUE, FALSE, metrics)
       ELSE IF GitCommitIn(tool_input.command)
            THEN IF stderr # <<>> /\ HasWord(stderr, {"error"})
                 THEN Add(metrics, "git_failures", 1)
                 ELSE IF stdout # <<>> /\ (\E i \in DOMAIN stdout : stdout[i] = "[")
                      THEN Add(metrics, "commits_total", 1)
                      ELSE Outcome(FALSE, FALSE, metrics)
       ELSE Outcome(FALSE, FALSE, metrics)

\* the branch that counts a reported error besides the commit
TrackBash_error_also_counted(metrics, tool_input, tool_response) ==
    LET stdout == IF tool_response.dict THEN tool_response.stdout ELSE <<>>
        stderr == IF tool_response.dict THEN tool_response.stderr ELSE <<>>
        failed == stderr # <<>> /\ HasWord(stderr, {"error"})
        counted == IF stdout # <<>> /\ (\E i \in DOMAIN stdout : stdout[i] = "[")
                   THEN Add(metrics, "commits_total", 1)
                   ELSE Outcome(FALSE, FALSE, metrics)
    IN IF ~tool_input.dict THEN Outcome(TRUE, FALSE, metrics)
       ELSE IF GitCommitIn(tool_input.command)
            THEN IF failed THEN Add(counted.metrics, "git_failures", 1) ELSE counted
       ELSE Outcome(FALSE, FALSE, metrics)

TrackBash(metrics, tool_input, tool_response) ==
    LET stdout == IF tool_response.dict THEN tool_response.stdout ELSE <<>>
        stderr == IF tool_response.dict THEN tool_response.stderr ELSE <<>>
    IN IF ~tool_input.dict THEN Outcome(TRUE, FALSE, metrics)
       ELSE IF GitCommitIn(tool_input.command)
            THEN IF stdout # <<>> /\ ((\E i \in DOMAIN stdout : stdout[i] = "[")
                                      \/ HasAdjacent(stdout, {"create"}, {"mode"}))
                 THEN Add(metrics, "commits_total", 1)
                 ELSE IF stderr # <<>> /\ HasWord(stderr, {"error"})
                      THEN Add(metrics, "git_failures", 1)
                      ELSE Outcome(FALSE, FALSE, metrics)
       ELSE IF StartsWithGit(tool_input.command)
            THEN IF stderr # <<>> /\ HasWord(stderr, {"error", "fatal"})
                 THEN Add(metrics, "git_failures", 1)
                 ELSE Outcome(FALSE, FALSE, metrics)
       ELSE Outcome(FALSE, FALSE, metrics)

Track(metrics, tool_name, tool_input, tool_response) ==
    CASE tool_name = "Edit" -> TrackEdit(metrics, tool_input)
      [] tool_name = "Write" -> TrackWrite(metrics, tool_input)
      [] tool_name = "Bash" -> TrackBash(metrics, tool_input, tool_response)
      [] OTHER -> Outcome(FALSE, FALSE, metrics)

\* main: an uncaught exception ends the run with exit code 1 and no write
TrackerMain(stdin, tool_name, tool_input, tool_response) ==
    /\ trackerRun.n < MaxTrackerRuns
    /\ LET out == IF stdin # "object" THEN Outcome(FALSE, FALSE, metricsFile)
                  ELSE Track(load_metrics(metricsFile), tool_name, tool_input, tool_response)
           raised == out.raised \/ (out.updated /\ ~metricsWritable)
       IN /\ metricsFile' = IF out.updated /\ ~raised
                            THEN save_metrics(out.metrics, trackerRun.n + 1)
                            ELSE metricsFile
          /\ trackerRun' = [n |-> trackerRun.n + 1, stdin |-> stdin, tool_name |-> tool_name,
                            tool_input |-> tool_input, tool_response |-> tool_response,
                            exit |-> IF raised THEN 1 ELSE 0]
    /\ UNCHANGED <<metricsWritable, orchVars, routerVars, restVars>>

\* something other than the tracker replaces or removes the metrics file
ReplaceMetricsFile(f) ==
    /\ trackerRun.n < MaxTrackerRuns
    /\ f # metricsFile
    /\ metricsFile' = f
    /\ UNCHANGED <<metricsWritable, trackerRun, orchVars, routerVars, restVars>>

\* the permissions of the metrics file or of its directory change
ChangeMode(writable) ==
    /\ trackerRun.n < MaxTrackerRuns
    /\ writable # metricsWritable
    /\ metricsWritable' = writable
    /\ UNCHANGED <<metricsFile, trackerRun, orchVars, routerVars, restVars>>

(***************************************************************************)
(* Library/<domain>/hooks/custom-reminder.py, the keyword-trigger routers. *)
(***************************************************************************)
StackingDomains == {"ios", "macos", "webdev"}

RouterPrompts ==
    {<<>>, <<"hello">>, <<"Bug">>, <<"explain", "the", "Bug">>, <<"plan", "the", "work">>,
     <<"create", "the", "plan">>, <<"run", "in", "parallel">>, <<"improve", "the", "prompt">>}

\* the order of the checks of the main script of ios, macos and webdev
StackingChecks == <<"DEBUG", "INVESTIGATION", "IMPLEMENTATION", "PLANNING", "PARALLELIZATION">>

\* the order of the checks of the main script of streamdeck
StreamdeckChecks == <<"DEBUG", "INVESTIGATION", "PROMPT_IMPROVEMENT", "PLANNING", "PARALLEL">>

Reminder_DEBUG_PATTERNS(domain, text) ==
    \/ HasWord(text, {"debug", "debugging", "bug"})
    \/ \E i \in DOMAIN text : \E j \in 1..(Len(text) - 1) :
          i < j /\ Lower(text[i]) = "why" /\ Lower(text[j]) = "not" /\ Lower(text[j + 1]) = "work"
    \/ HasOrdered(text, {"what"}, {"wrong"}) \/ HasAdjacent(text, {"not"}, {"working"})
    \/ HasWord(text, {"crash", "exception", "error", "failed"})
    \/ HasOrdered(text, {"build"}, {"fail"}) \/ HasOrdered(text, {"compile", "runtime"}, {"error"})
    \/ (domain = "ios" /\ HasOrdered(text, {"xcode", "swift"}, {"error"}))

Reminder_INVESTIGATION_PATTERNS(text) ==
    \/ HasWord(text, {"investigate", "research", "analyze", "examine", "explore", "understand"})
    \/ \E i \in 1..(Len(text) - 1) : \E j \in DOMAIN text :
          i + 1 < j /\ Lower(text[i]) = "how" /\ Lower(text[i + 1]) = "does" /\ Lower(text[j]) = "work"
    \/ HasAdjacent(text, {"figure", "find"}, {"out"}) \/ HasWord(text, {"explain"})
    \/ HasAdjacent(text, {"code"}, {"review"}) \/ HasWord(text, {"audit", "inspect"})
    \/ HasOrdered(text, {"data"}, {"flow"}) \/ HasWord(text, {"architecture"})
    \/ HasOrdered(text, {"system"}, {"design"})

Reminder_IMPLEMENTATION_PATTERNS(domain, text) ==
    \/ HasOrdered(text, ImplVerbs,
                  {"feature", "function", "component", "service", "module", "class"}
                  \cup (IF domain = "webdev" THEN {"hook", "api"} ELSE {"view"}))
    \/ HasAdjacent(text, {"make", "build", "create", "develop"}, {"this", "it", "the"})
    \/ HasAdjacent(text, {"let's", "please"}, ImplVerbs \ {"add"})
    \/ \E i \in 1..(Len(text) - 2) :
          /\ Lower(text[i]) = "can" /\ Lower(text[i + 1]) = "you"
          /\ Lower(text[i + 2]) \in ImplVerbs \ {"add"}
    \/ HasAdjacent(text, {"start"}, {"implementing", "building", "coding", "developing"})

Reminder_PLANNING_PATTERNS(text) ==
    \/ HasOrdered(text, {"make", "create", "develop", "write", "build"}, {"plan"})
    \/ HasAdjacent(text, {"plan", "planning"}, {"out", "for", "the"})
    \/ HasAdjacent(text, {"implementation", "feature", "system", "architecture"}, {"plan"})

Reminder_PARALLEL_PATTERNS(text) ==
    \/ HasWord(text, {"parallel", "parallelize", "parallelization", "concurrently", "simultaneously"})
    \/ HasAdjacent(text, {"in"}, {"parallel"}) \/ HasAdjacent(text, {"concurrent"}, {"execution"})
    \/ \E i \in 1..(Len(text) - 3) :
          /\ Lower(text[i]) = "at" /\ Lower(text[i + 1]) = "the"
          /\ Lower(text[i + 2]) = "same" /\ Lower(text[i + 3]) = "time"

\* improv and enhanc open a word in front of the prompt and are a whole word
\* behind it
PROMPT_IMPROVEMENT_PATTERNS(text) ==
    \/ HasOrdered(text, {"improv", "improve", "improving", "enhanc", "enhance", "enhancing"},
                  {"prompt", "prompting"})
    \/ HasOrdered(text, {"prompt", "prompting"}, {"improv", "enhanc"})
    \/ HasOrdered(text, {"better", "optimize", "refine"}, {"prompt", "prompting"})
    \/ HasOrdered(text, {"prompt", "prompting"}, {"better", "optimize", "refine"})

reminder_check_patterns(domain, text, category) ==
    CASE category = "DEBUG" -> Reminder_DEBUG_PATTERNS(domain, text)
      [] category = "INVESTIGATION" -> Reminder_INVESTIGATION_PATTERNS(text)
      [] category = "IMPLEMENTATION" -> Reminder_IMPLEMENTATION_PATTERNS(domain, text)
      [] category = "PLANNING" -> Reminder_PLANNING_PATTERNS(text)
      [] category = "PROMPT_IMPROVEMENT" -> PROMPT_IMPROVEMENT_PATTERNS(text)
      [] OTHER -> Reminder_PARALLEL_PATTERNS(text)

\* the guide file a category's load_*_guide opens
ReminderGuideFile(category) ==
    CASE category = "DEBUG" -> "debug"
      [] category = "INVESTIGATION" -> "investigation"
      [] category = "IMPLEMENTATION" -> "implementation"
      [] category = "PLANNING" -> "planning"
      [] OTHER -> "parallel"

\* what a block carries: what was read from a guide file, a *_PROMPT_FALLBACK
\* constant, one of streamdeck's *_PROMPT constants, or the message made from
\* the exception
FromFile(name, st) == [from |-> "file", of |-> name, text |-> st]
Fallback(category) == [from |-> "fallback", of |-> category, text |-> "text"]
Constant(category) == [from |-> "constant", of |-> category, text |-> "text"]
ErrorMessage(name) == [from |-> "error", of |-> name, text |-> "text"]

\* load_debug_guide .. load_parallel_guide of ios, macos and webdev
load_reminder_guide(domain, cwd, category) ==
    LET name == ReminderGuideFile(category)
    IN IF guideFile[cwd][name] # "absent" THEN FromFile(name, guideFile[cwd][name])
       ELSE CASE category = "PARALLELIZATION" -> ErrorMessage(name)
              [] category = "PLANNING" /\ domain \in {"macos", "webdev"} -> Fallback("IMPLEMENTATION")
              [] OTHER -> Fallback(category)

\* get_*_prompt: the guide wrapped in the category's <system-reminder>
get_reminder_prompt(domain, cwd, category) ==
    [category |-> category, content |-> load_reminder_guide(domain, cwd, category)]

\* streamdeck: the prompts are constants, but for the parallel guide
get_streamdeck_prompt(cwd, category) ==
    [category |-> category,
     content |-> IF category # "PARALLEL" THEN Constant(category)
                 ELSE IF guideFile[cwd]["parallel"] # "absent"
                      THEN FromFile("parallel", guideFile[cwd]["parallel"])
                      ELSE ErrorMessage("parallel")]

\* a list that keeps the first trigger only
reminder_triggered_first_only(domain, checks, prompt) ==
    LET all == SelectSeq(checks, LAMBDA c : reminder_check_patterns(domain, prompt, c))
    IN SubSeq(all, 1, IF all = <<>> THEN 0 ELSE 1)

\* triggered: the categories whose check matched, in the order of the checks
reminder_triggered(domain, checks, prompt) ==
    SelectSeq(checks, LAMBDA c : reminder_check_patterns(domain, prompt, c))

Ran(domain, cwd, prompt, names, blocks) ==
    [n |-> routerRun.n + 1, domain |-> domain, cwd |-> cwd, prompt |-> prompt,
     names |-> names, blocks |-> blocks, exit |-> 0]

\* a main script that leaves the fallback behind as the missing guide file
StackingRouterMain_writes_guide(domain, cwd, prompt) ==
    /\ routerRun.n < MaxRouterRuns
    /\ LET triggered == reminder_triggered(domain, StackingChecks, prompt)
       IN /\ routerRun' = Ran(domain, cwd, prompt, triggered,
                              [i \in DOMAIN triggered |-> get_reminder_prompt(domain, cwd, triggered[i])])
          /\ guideFile' = [guideFile EXCEPT ![cwd] =
                              [name \in GuideFileNames |->
                                  IF /\ guideFile[cwd][name] = "absent"
                                     /\ \E i \in DOMAIN triggered : ReminderGuideFile(triggered[i]) = name
                                  THEN "text" ELSE guideFile[cwd][name]]]
    /\ UNCHANGED <<sessionFile, now, proc, runs, history, wrote, metricsVars, restVars>>

\* the main script of ios, macos and webdev: the instruction that lists the
\* triggered names, then every triggered prompt
StackingRouterMain(domain, cwd, prompt) ==
    /\ routerRun.n < MaxRouterRuns
    /\ LET triggered == reminder_triggered(domain, StackingChecks, prompt)
       IN routerRun' = Ran(domain, cwd, prompt, triggered,
                           [i \in DOMAIN triggered |-> get_reminder_prompt(domain, cwd, triggered[i])])
    /\ UNCHANGED <<orchVars, metricsVars, restVars>>

\* the main script of streamdeck: the prompt of the first check that matches,
\* then sys.exit(0)
StreamdeckRouterMain(cwd, prompt) ==
    /\ routerRun.n < MaxRouterRuns
    /\ LET triggered == reminder_triggered("streamdeck", StreamdeckChecks, prompt)
       IN routerRun' = Ran("streamdeck", cwd, prompt, <<>>,
                           IF triggered = <<>> THEN <<>>
                           ELSE <<get_streamdeck_prompt(cwd, triggered[1])>>)
    /\ UNCHANGED <<orchVars, metricsVars, restVars>>

(***************************************************************************)
(* The parse of standard input at the top of every hook script.            *)
(***************************************************************************)
Scripts ==
    {"hooks/workflow-orchestrator.py", "Library/macos/hooks/workflow-orchestrator.py",
     "hooks/parallel.py", "hooks/metrics-tracker.py", "hooks/git-hook.py",
     "hooks/unified-context-dispatcher.py", "hooks/unified-parallel-handler.py",
     "hooks/unified-output-style-switcher.py", "Library/ios/hooks/custom-reminder.py",
     "Library/macos/hooks/custom-reminder.py", "Library/webdev/hooks/custom-reminder.py",
     "Library/streamdeck/hooks/custom-reminder.py"}

\* a parse whose failure is reported by every script
\* how a script ends: without a word and exit code 0, or with an error on
\* stderr and exit code 1
SilentExit == [exit |-> 0, stderr |-> FALSE]
ReportedExit == [exit |-> 1, stderr |-> TRUE]

parse_failure_always_reported(script) == ReportedExit

\* what json.load raising JSONDecodeError leads to: the metrics tracker exits 0
\* in its except branch, the parallel hook logs the exception to
\* /tmp/claude_supervisor.log and returns, git-hook.py does not catch it, and
\* the others print "Error: Invalid JSON input" to stderr and exit 1 (the two
\* scripts that import unified_context_dispatcher end in the same way, with
\* exit code 1 and an error on stderr, when the import fails first)
parse_failure(script) ==
    CASE script = "hooks/metrics-tracker.py" -> SilentExit
      [] script = "hooks/parallel.py" -> SilentExit
      [] OTHER -> ReportedExit

\* a hook script started with standard input that is not JSON
RunOnInvalidJson(script) ==
    /\ stdinRun' = [script |-> script, exit |-> parse_failure(script).exit,
                    stderr |-> parse_failure(script).stderr]
    /\ UNCHANGED <<hookVars, scaffoldVars, detectVars, exporterVars, dispatcherVars>>

InitStdin == stdinRun = [script |-> "none", exit |-> 0, stderr |-> FALSE]

(***************************************************************************)
(* The workspace scaffolder, scripts/init-workspace.py, run on one target  *)
(* workspace.  The domain library ~/.claude/library/<domain> is taken to   *)
(* be installed with the six domain folders, a settings template that has  *)
(* a permissions list, a .gitignore template and the debug templates the   *)
(* script looks for.  The clock reading of a run is its ordinal: two runs  *)
(* never read the same instant.                                            *)
(***************************************************************************)
available_domains == {"ios", "macos", "visionos", "streamdeck", "webdev", "default"}

\* the values of argv[1] that are tried
ScaffoldArgs == {"macos", "ios", "webdev", "android"}

\* the target project: an Xcode project with a source directory and an asset
\* catalogue, or a package.json project without src/ and public/; "none" is
\* a workspace with neither
Projects == {"xcode", "node"}

\* the files the debug set-up writes next to the sources; the webdev and
\* stream deck helpers that are written like logger.ts are left out
ProjectFiles == {"DebugLogger.swift", "DebugOverlay.swift", "GitInfo.swift", "logger.ts"}
ScriptFiles == {"generate-debug-favicon.py"}
FileNames == ProjectFiles \cup ScriptFiles

\* the order json.dump gives the merged permission list: the template's own
\* order, or one of the orders list(set(...)) produces
PermOrders == {"template", "hashed-a", "hashed-b"}
HashedOrders == {"hashed-a", "hashed-b"}

NoSettings == [exists |-> FALSE, template |-> "none", permissions |-> {}, order |-> "template",
               custom |-> FALSE, hooks |-> "none"]
NoMarker == [exists |-> FALSE, domain |-> "none", initialized |-> 0, last_updated |-> 0,
             build_settings_configured |-> FALSE, debug_icons_generated |-> FALSE,
             template_versions |-> {}]
NoGitignore == [exists |-> FALSE, patterns |-> {}]

\* what preserve_user_settings keeps of settings.local.json: the permissions
\* and every key other than hooks and outputStyle
preserve_user_settings(ws) ==
    [permissions |-> ws.settings.permissions, kept |-> ws.settings.exists,
     custom |-> ws.settings.custom]

\* clean_domain_files followed by copy_domain_files: the six folders are
\* removed with all they hold and copied anew from the library
clean_domain_files(ws) == [ws EXCEPT !.folders = "none", !.userAgent = FALSE]
copy_domain_files(ws, domain) == [ws EXCEPT !.folders = domain]

\* merge_settings: the template of the domain, the preserved permissions
\* merged into it through list(set(...)), the other preserved keys copied
merge_settings(ws, domain, preserved, order) ==
    [ws EXCEPT !.settings =
        [exists |-> TRUE, template |-> domain,
         permissions |-> {domain} \cup preserved.permissions,
         order |-> IF preserved.kept THEN order ELSE "template",
         custom |-> preserved.custom, hooks |-> "template"]]

setup_gitignore(ws, domain) ==
    [ws EXCEPT !.gitignore = [exists |-> TRUE, patterns |-> ws.gitignore.patterns \cup {domain}]]

AppleDomains == {"ios", "macos", "visionos"}
LoggerDomains == {"macos", "visionos"}

\* configure_debug_release_build_settings: its result and the project file
build_settings(ws, deps, domain) ==
    IF domain \notin AppleDomains \/ ~deps.pbxproj THEN [ok |-> FALSE, ws |-> ws]
    ELSE IF ws.project = "xcode" /\ ws.buildConfigured THEN [ok |-> TRUE, ws |-> ws]
    ELSE IF ws.project # "xcode" THEN [ok |-> FALSE, ws |-> ws]
    ELSE [ok |-> TRUE, ws |-> [ws EXCEPT !.buildConfigured = TRUE]]

\* setup_debug_icons: its result and the asset catalogue
debug_icons(ws, deps, domain) ==
    IF domain \notin AppleDomains \/ ~deps.PIL THEN [ok |-> FALSE, ws |-> ws]
    ELSE IF ws.project # "xcode" THEN [ok |-> FALSE, ws |-> ws]
    ELSE IF ws.debugIcon THEN [ok |-> TRUE, ws |-> ws]
    ELSE [ok |-> TRUE, ws |-> [ws EXCEPT !.debugIcon = TRUE]]

write_always(st) == "template"

\* a template is written only where its destination does not exist
write_if_absent(st) == IF st = "absent" THEN "template" ELSE st

\* merge_template_improvements: True only when the file was created
merge_template_improvements(st) == st = "absent"

\* setup_debug_logger: the three results and the files under Utilities/
setup_debug_logger(ws, domain) ==
    IF domain \notin LoggerDomains \/ ws.project # "xcode"
    THEN [debug_logger |-> FALSE, debug_overlay |-> FALSE, git_info |-> FALSE, ws |-> ws]
    ELSE [debug_logger |-> TRUE,
          debug_overlay |-> merge_template_improvements(ws.files["DebugOverlay.swift"]),
          git_info |-> merge_template_improvements(ws.files["GitInfo.swift"]),
          ws |-> [ws EXCEPT !.files =
                     [name \in FileNames |->
                         IF name \in {"DebugLogger.swift", "DebugOverlay.swift", "GitInfo.swift"}
                         THEN write_if_absent(ws.files[name]) ELSE ws.files[name]]]]

\* setup_webdev_debug: logger.ts where it is missing, and the favicon script
\* copied over whatever is there when Pillow is installed
setup_webdev_debug(ws, deps) ==
    IF ws.project # "node" THEN ws
    ELSE [ws EXCEPT !.files =
             [name \in FileNames |->
                 IF name = "logger.ts" THEN write_if_absent(ws.files[name])
                 ELSE IF name = "generate-debug-favicon.py" /\ deps.PIL THEN "template"
                 ELSE ws.files[name]]]

\* update_claude_md: the Debugging section is appended to a CLAUDE.md that
\* has none, and an existing section is replaced by the section and a
\* further newline
update_claude_md(ws, domain) ==
    IF domain \notin LoggerDomains \/ ws.project # "xcode" THEN ws
    ELSE [ws EXCEPT !.claudeMd = CASE ws.claudeMd = "absent" -> "absent"
                                   [] ws.claudeMd = "plain" -> "appended"
                                   [] OTHER -> "replaced"]

template_versions_of(results) ==
    (IF results.debug_logger THEN {"DebugLogger"} ELSE {})
    \cup (IF results.debug_overlay THEN {"DebugOverlay"} ELSE {})
    \cup (IF results.git_info THEN {"GitInfo"} ELSE {})

\* create_domain_marker: the state of the existing marker is read first and
\* then overwritten by domain_data.update(config), config being the
\* config_state of this run
create_domain_marker(ws, domain, config, utcnow) ==
    LET existing_config == ws.marker
        domain_data ==
            [exists |-> TRUE, domain |-> domain,
             initialized |-> IF existing_config.exists THEN existing_config.initialized ELSE utcnow,
             last_updated |-> utcnow,
             build_settings_configured |-> existing_config.build_settings_configured,
             debug_icons_generated |-> existing_config.debug_icons_generated,
             template_versions |-> existing_config.template_versions]
    IN [ws EXCEPT !.marker =
           [domain_data EXCEPT !.build_settings_configured = config.build_settings_configured,
                               !.debug_icons_generated = config.debug_icons_generated,
                               !.template_versions = config.template_versions]]

\* main of init-workspace.py, from the arguments to the exit code
scaffold(ws, deps, domain, order, utcnow) ==
    IF domain \notin available_domains THEN [exit |-> 1, ws |-> ws]
    ELSE
    LET preserved == preserve_user_settings(ws)
        copied    == copy_domain_files(clean_domain_files(ws), domain)
        merged    == merge_settings(copied, domain, preserved, order)
        ignored   == setup_gitignore(merged, domain)
        built     == build_settings(ignored, deps, domain)
        icons     == debug_icons(built.ws, deps, domain)
        logger    == setup_debug_logger(icons.ws, domain)
        webdev    == IF domain = "webdev" THEN setup_webdev_debug(logger.ws, deps) ELSE logger.ws
        documented == update_claude_md(webdev, domain)
        config_state == [build_settings_configured |-> built.ok,
                         debug_icons_generated |-> icons.ok,
                         template_versions |-> template_versions_of(logger)]
    IN [exit |-> 0, ws |-> create_domain_marker(documented, domain, config_state, utcnow)]

\* one run of the scaffolder on the workspace
InitWorkspaceMain(domain, order) ==
    /\ initRun.n < MaxInitRuns
    /\ LET result == scaffold(workspace, host, domain, order, initRun.n + 1)
       IN /\ workspace' = result.ws
          /\ initRun' = [n |-> initRun.n + 1, domain |-> domain, exit |-> result.exit,
                         untouched |-> TRUE]
    /\ UNCHANGED <<host, hookVars, stdinVars, detectVars, exporterVars, dispatcherVars>>

\* the user adds an agent of their own under .claude/agents
AddAgent ==
    /\ workspace.folders # "none"
    /\ workspace' = [workspace EXCEPT !.userAgent = TRUE]
    /\ initRun' = [initRun EXCEPT !.untouched = FALSE]
    /\ UNCHANGED <<host, hookVars, stdinVars, detectVars, exporterVars, dispatcherVars>>

\* the user edits settings.local.json: a permission, a key of their own or
\* the hooks
SettingsKeys == {"permissions", "custom", "hooks"}
EditSettings(key) ==
    /\ workspace.settings.exists
    /\ workspace' =
         [workspace EXCEPT !.settings =
             CASE key = "permissions" -> [@ EXCEPT !.permissions = @ \cup {"user"}]
               [] key = "custom" -> [@ EXCEPT !.custom = TRUE]
               [] OTHER -> [@ EXCEPT !.hooks = "user"]]
    /\ initRun' = [initRun EXCEPT !.untouched = FALSE]
    /\ UNCHANGED <<host, hookVars, stdinVars, detectVars, exporterVars, dispatcherVars>>

\* the user changes a file the scaffolder wrote into the project
EditFile(name) ==
    /\ workspace.files[name] # "absent"
    /\ workspace' = [workspace EXCEPT !.files[name] = "user"]
    /\ initRun' = [initRun EXCEPT !.untouched = FALSE]
    /\ UNCHANGED <<host, hookVars, stdinVars, detectVars, exporterVars, dispatcherVars>>

\* the project is created in the empty workspace, with or without CLAUDE.md
CreateProject(project, claudeMd) ==
    /\ workspace.project = "none" /\ initRun.n = 0
    /\ workspace' = [workspace EXCEPT !.project = project, !.claudeMd = claudeMd]
    /\ UNCHANGED <<host, initRun, hookVars, stdinVars, detectVars, exporterVars, dispatcherVars>>

\* pbxproj and Pillow are installed
InstallPackages ==
    /\ ~host.pbxproj
    /\ host' = [pbxproj |-> TRUE, PIL |-> TRUE]
    /\ initRun' = [initRun EXCEPT !.untouched = FALSE]
    /\ UNCHANGED <<workspace, hookVars, stdinVars, detectVars, exporterVars, dispatcherVars>>

InitScaffold ==
    /\ workspace = [project |-> "none", folders |-> "none", userAgent |-> FALSE,
                    settings |-> NoSettings, marker |-> NoMarker, gitignore |-> NoGitignore,
                    files |-> [name \in FileNames |-> "absent"], claudeMd |-> "absent",
                    buildConfigured |-> FALSE, debugIcon |-> FALSE]
    /\ host = [pbxproj |-> FALSE, PIL |-> FALSE]
    /\ initRun = [n |-> 0, domain |-> "none", exit |-> 0, untouched |-> FALSE]

(***************************************************************************)
(* detect_domain of scripts/init-workspace.py, applied to a workspace that *)
(* is described by the indicators the function looks for.  The workspace   *)
(* holds at most ten Swift files, so that the sample swift_files[:10] is   *)
(* all of them.                                                            *)
(***************************************************************************)
\* what the function searches Swift sources for
SwiftMarkers == {"import RealityKit", "import UIKit", "UIApplication", "import AppKit"}

\* platform identifiers in project.pbxproj
PbxMarkers == {"SDKROOT = macosx", "SDKROOT = iphoneos"}

\* the other files that count as indicators
OtherFiles == {"Podfile", "Plugin.sdPlugin", "package.json @elgato/streamdeck",
               "package.json react", "rollup.config.mjs", "src/action.ts",
               "next.config.js", "tsconfig.json"}

NoTree == [xcodeproj |-> FALSE, xcworkspace |-> FALSE, RealityKitContent |-> FALSE,
           swift |-> FALSE, markers |-> {}, pbxproj |-> {}, others |-> {}]

Trees ==
    {t \in [xcodeproj : BOOLEAN, xcworkspace : BOOLEAN, RealityKitContent : BOOLEAN,
            swift : BOOLEAN, markers : SUBSET SwiftMarkers, pbxproj : SUBSET PbxMarkers,
            others : SUBSET OtherFiles] :
        /\ ~t.swift => t.markers = {}
        /\ ~t.xcodeproj => t.pbxproj = {}
        /\ Cardinality(t.others) <= MaxOtherFiles}

visionos_strong == <<"**/*.xcodeproj", "**/*.xcworkspace", "**/RealityKitContent/**">>

\* workspace_path.glob(pattern) finds something
Globs(t, pattern) ==
    CASE pattern = "**/*.xcodeproj" -> t.xcodeproj
      [] pattern = "**/*.xcworkspace" -> t.xcworkspace
      [] pattern = "**/RealityKitContent/**" -> t.RealityKitContent
      [] pattern = "**/*.swift" -> t.swift
      [] OTHER -> pattern \in t.others

scan_visionos_strong_no_content(t, i) == "none"

\* the loop over the strong visionOS indicators, from the i-th on: it
\* returns 'visionos', breaks at UIKit sources, or runs to its end
RECURSIVE scan_visionos_strong(_, _)
scan_visionos_strong(t, i) ==
    IF i > Len(visionos_strong) THEN "none"
    ELSE IF ~Globs(t, visionos_strong[i]) THEN scan_visionos_strong(t, i + 1)
    ELSE IF visionos_strong[i] = "**/RealityKitContent/**" THEN "visionos"
    ELSE IF t.swift /\ "import RealityKit" \in t.markers THEN "visionos"
    ELSE IF t.swift /\ "import UIKit" \in t.markers THEN "break"
    ELSE scan_visionos_strong(t, i + 1)

\* the decision over the Xcode projects: the frameworks the Swift files use
\* before the platform of the project file
xcode_decision(t) ==
    LET has_macos_project == "SDKROOT = macosx" \in t.pbxproj
        has_ios_project == "SDKROOT = iphoneos" \in t.pbxproj
        has_macos_frameworks == "import AppKit" \in t.markers
        has_ios_frameworks == t.markers \cap {"import UIKit", "UIApplication"} # {}
    IN  IF ~(t.xcodeproj \/ t.xcworkspace) THEN "none"
        ELSE IF has_macos_frameworks /\ ~has_ios_frameworks THEN "macos"
        ELSE IF has_ios_frameworks /\ ~has_macos_frameworks THEN "ios"
        ELSE IF has_macos_frameworks /\ has_ios_frameworks
             THEN (IF has_macos_project THEN "macos" ELSE "ios")
        ELSE IF has_macos_project /\ ~has_ios_project THEN "macos"
        ELSE IF has_ios_project /\ ~has_macos_project THEN "ios"
        ELSE "none"

Score(t, files, points) == IF t.others \cap files # {} THEN points ELSE 0

\* the checks after the Xcode projects: Podfile, Stream Deck, web, default
fallback_domain(t) ==
    LET streamdeck_medium_score ==
            Score(t, {"package.json @elgato/streamdeck"}, 2)
            + Score(t, {"rollup.config.mjs"}, 1) + Score(t, {"src/action.ts"}, 1)
        webdev_medium_score ==
            Score(t, {"package.json react"}, 2) + Score(t, {"tsconfig.json"}, 1)
    IN  IF "Podfile" \in t.others THEN "ios"
        ELSE IF "Plugin.sdPlugin" \in t.others THEN "streamdeck"
        ELSE IF streamdeck_medium_score >= 2 THEN "streamdeck"
        ELSE IF "next.config.js" \in t.others THEN "webdev"
        ELSE IF webdev_medium_score >= 2 THEN "webdev"
        ELSE "default"

detect_domain(t) ==
    IF scan_visionos_strong(t, 1) = "visionos" THEN "visionos"
    ELSE IF xcode_decision(t) # "none" THEN xcode_decision(t)
    ELSE fallback_domain(t)

\* a workspace is laid out
Populate ==
    /\ tree = NoTree /\ detected = "none"
    /\ tree' \in Trees
    /\ UNCHANGED <<detected, hookVars, stdinVars, scaffoldVars, exporterVars, dispatcherVars>>

\* detect_domain is called on it
DetectDomain ==
    /\ detected = "none"
    /\ detected' = detect_domain(tree)
    /\ UNCHANGED <<tree, hookVars, stdinVars, scaffoldVars, exporterVars, dispatcherVars>>

InitDetect == tree = NoTree /\ detected = "none"

(***************************************************************************)
(* The metrics exporter, monitoring/metrics-exporter.py: one process at a  *)
(* time that calls update_metrics every 30 seconds.  Its sources are the   *)
(* tracker's metrics file and the session files under ~/.claude/projects,  *)
(* the latter through the totals that calculate_tokens_from_sessions and   *)
(* calculate_real_time_from_sessions return for them (one model, one token *)
(* type).                                                                  *)
(***************************************************************************)
\* the keys of _previous_values, one per delta counter
DeltaKeys ==
    {"token", "cost", "tool_calls", "cli_time", "user_time", "commits", "lines", "files",
     "blocked", "git_fail"}

\* the price of a token, in MODEL_PRICING's unit
SonnetInputPrice == 3

calculate_cost(input_tokens) == input_tokens * SonnetInputPrice

\* load_tracking: the counters of the metrics file, zero where the file or
\* the key is missing
load_tracking(f) ==
    IF f.kind \in {"missing", "unreadable", "invalid", "nokeys"} THEN Document("counters", 0)
    ELSE f

\* the value update_metrics computes for each delta counter and sets the
\* matching gauge to
SourceValue(key) ==
    LET tracking == load_tracking(metricsFile)
    IN CASE key = "token" -> sessions.tokens
         [] key = "cost" -> calculate_cost(sessions.tokens)
         [] key = "tool_calls" -> tracking.files_modified
         [] key = "cli_time" -> sessions.cli_time
         [] key = "user_time" -> sessions.user_time
         [] key = "commits" -> tracking.commits_total
         [] key = "lines" -> tracking.lines_added + tracking.lines_removed
         [] key = "files" -> tracking.files_modified
         [] key = "blocked" -> tracking.commands_blocked
         [] OTHER -> tracking.git_failures

\* every counter, gauge and previous value of a process that was just started
NoValues == [key \in DeltaKeys |-> 0]

previous_values_kept(old) == old

\* _previous_values = {} when the module is loaded, whatever an earlier
\* process held; a key that is not there reads as 0
previous_values_at_start(old) == NoValues

\* the token and cost metrics are updated in the loop over the models of
\* calculate_tokens_from_sessions: a model that no session file names is not
\* visited
Visited(key) == key \notin {"token", "cost"} \/ sessions.tokens > 0

\* one call of update_metrics
UpdateMetrics ==
    /\ exporter.updates < MaxUpdates
    /\ exporter' =
         [exporter EXCEPT
            !.updates = @ + 1,
            !.gauge = [key \in DeltaKeys |-> IF Visited(key) THEN SourceValue(key) ELSE @[key]],
            !.counter = [key \in DeltaKeys |->
                            IF Visited(key) /\ SourceValue(key) > exporter.previous[key]
                            THEN @[key] + (SourceValue(key) - exporter.previous[key])
                            ELSE @[key]],
            !.previous = [key \in DeltaKeys |-> IF Visited(key) THEN SourceValue(key) ELSE @[key]],
            !.seen = [key \in DeltaKeys |-> SourceValue(key)]]
    /\ UNCHANGED <<sessions, timeVars, hookVars, stdinVars, scaffoldVars, detectVars, dispatcherVars>>

\* the exporter process ends and a new one is started: the Counter and Gauge
\* objects and _previous_values are those of the new process
RestartExporter ==
    /\ exporter.pid < MaxExporterStarts
    /\ exporter' = [pid |-> exporter.pid + 1, updates |-> 0,
                    gauge |-> NoValues, counter |-> NoValues,
                    previous |-> previous_values_at_start(exporter.previous),
                    before |-> exporter.previous, seen |-> NoValues]
    /\ UNCHANGED <<sessions, timeVars, hookVars, stdinVars, scaffoldVars, detectVars, dispatcherVars>>

\* Claude is used: a user message and the assistant's response to it are
\* written to a new session file, and each total grows
UseClaude ==
    /\ sessions.cli_time < MaxSessionUse
    /\ sessions' = [tokens |-> sessions.tokens + 1, cli_time |-> sessions.cli_time + 1,
                    user_time |-> sessions.user_time + 1]
    /\ UNCHANGED <<exporter, timeVars, hookVars, stdinVars, scaffoldVars, detectVars, dispatcherVars>>

\* the session files are deleted: no tokens are left to sum, while the time
\* totals stay in the time cache
RemoveSessions ==
    /\ sessions.tokens > 0
    /\ sessions' = [sessions EXCEPT !.tokens = 0]
    /\ UNCHANGED <<exporter, timeVars, hookVars, stdinVars, scaffoldVars, detectVars, dispatcherVars>>

InitExporter ==
    /\ exporter = [pid |-> 1, updates |-> 0, gauge |-> NoValues, counter |-> NoValues,
                   previous |-> NoValues, before |-> NoValues, seen |-> NoValues]
    /\ sessions = [tokens |-> 0, cli_time |-> 0, user_time |-> 0]

(***************************************************************************)
(* calculate_real_time_from_sessions of monitoring/metrics-exporter.py:    *)
(* the session files, the time cache and the totals a call returns.  A     *)
(* session file is the sequence of its timestamped user and assistant      *)
(* entries; an entry is appended at the time of its timestamp.             *)
(***************************************************************************)
SessionFileNames == {"a/s1.jsonl", "b/s2.jsonl", "a/agent-1.jsonl"}

\* session_file.name.startswith("agent-")
IsAgentFile(name) == name = "a/agent-1.jsonl"

Roles == {"user", "assistant"}

\* the seconds between two entries: the longest gap that is counted and the
\* shortest that is not
GAP_CAP == 1800
Gaps == {GAP_CAP, GAP_CAP + 1}

NoSessionFile == [exists |-> FALSE, messages |-> <<>>, mtime |-> 0]

NotProcessed == -1
NoTimeCache ==
    [processed_files |-> [name \in SessionFileNames |-> NotProcessed], cli_time |-> 0,
     user_time |-> 0]

\* messages.sort(key=timestamp), a stable sort: m is inserted behind the
\* entries of the sorted sequence that are not later than it
RECURSIVE sort_by_timestamp(_)
sort_by_timestamp(messages) ==
    IF messages = <<>> THEN <<>>
    ELSE LET sorted == sort_by_timestamp(SubSeq(messages, 1, Len(messages) - 1))
             m == messages[Len(messages)]
             before == SelectSeq(sorted, LAMBDA x : x.timestamp <= m.timestamp)
             after == SelectSeq(sorted, LAMBDA x : x.timestamp > m.timestamp)
         IN before \o <<m>> \o after

\* the gaps of at most GAP_CAP seconds from an entry of role first to the
\* next entry, of role second, summed from entry i on
RECURSIVE gap_sum(_, _, _, _)
gap_sum(messages, i, first, second) ==
    IF i >= Len(messages) THEN 0
    ELSE LET gap == messages[i + 1].timestamp - messages[i].timestamp
         IN (IF gap <= GAP_CAP /\ messages[i].role = first /\ messages[i + 1].role = second
             THEN gap ELSE 0)
            + gap_sum(messages, i + 1, first, second)

session_cli(file) == gap_sum(sort_by_timestamp(file.messages), 1, "user", "assistant")
session_user(file) == gap_sum(sort_by_timestamp(file.messages), 1, "assistant", "user")

\* the main session files there are
session_files == {name \in SessionFileNames : projectSessions[name].exists /\ ~IsAgentFile(name)}

\* the files a call processes: those not skipped as 'already processed and
\* not modified'
to_process(cache) ==
    {name \in session_files :
        ~(/\ cache.processed_files[name] # NotProcessed
          /\ cache.processed_files[name] >= projectSessions[name].mtime)}

RECURSIVE SumOver(_, _)
SumOver(names, value) ==
    IF names = {} THEN 0
    ELSE LET name == CHOOSE n \in names : TRUE
         IN value[name] + SumOver(names \ {name}, value)

\* 'if file_key not in processed': only the files seen for the first time
\* add to the totals
added_if_new(cache) == {name \in to_process(cache) : cache.processed_files[name] = NotProcessed}

\* the time cache after a call; it is the one loaded when no file was processed
time_cache_after(cache) ==
    LET cli == [name \in SessionFileNames |-> session_cli(projectSessions[name])]
        user == [name \in SessionFileNames |-> session_user(projectSessions[name])]
    IN IF to_process(cache) = {} THEN cache
       ELSE [processed_files |->
                [name \in SessionFileNames |->
                    IF name \in to_process(cache) THEN projectSessions[name].mtime
                    ELSE cache.processed_files[name]],
             cli_time |-> cache.cli_time + SumOver(added_if_new(cache), cli),
             user_time |-> cache.user_time + SumOver(added_if_new(cache), user)]

\* one call of calculate_real_time_from_sessions
CalculateRealTime ==
    /\ timeRun.n < MaxTimeCalls
    /\ timeCache' = time_cache_after(timeCache)
    /\ timeRun' = [n |-> timeRun.n + 1, cli_time |-> timeCache'.cli_time,
                   user_time |-> timeCache'.user_time, processed |-> to_process(timeCache)]
    /\ UNCHANGED <<projectSessions, exporter, sessions, hookVars, stdinVars, scaffoldVars,
                   detectVars, dispatcherVars>>

MessagesWritten ==
    SumOver(SessionFileNames, [name \in SessionFileNames |-> Len(projectSessions[name].messages)])

\* Claude Code appends an entry to a session file, gap seconds after the
\* last entry written; the first entry creates the file
AppendMessage(name, role, gap) ==
    /\ MessagesWritten < MaxMessages
    /\ timeRun.n < MaxTimeCalls
    /\ now' = now + gap
    /\ projectSessions' =
         [projectSessions EXCEPT ![name] =
             [exists |-> TRUE, messages |-> Append(@.messages, [role |-> role, timestamp |-> now']),
              mtime |-> now']]
    /\ UNCHANGED <<timeCache, timeRun, exporter, sessions, sessionFile, guideFile, proc, runs,
                   history, wrote, metricsVars, routerVars, stdinVars, scaffoldVars, detectVars,
                   dispatcherVars>>

InitSessions ==
    /\ projectSessions = [name \in SessionFileNames |-> NoSessionFile]
    /\ timeCache = NoTimeCache
    /\ timeRun = [n |-> 0, cli_time |-> 0, user_time |-> 0, processed |-> {}]


(***************************************************************************)
(* hooks/unified-context-dispatcher.py: the context of a prompt, the       *)
(* context cache ~/.claude/.context_cache shared by all workspaces, and    *)
(* the context hook that is run.                                           *)
(***************************************************************************)
Contexts == {"visionos", "default"}

\* the files of a working directory, as far as detection looks at them:
\* the number of Swift files, of JavaScript and TypeScript files, and
\* whether there are Python files
SwiftOnly == [swift |-> 1, js |-> 0, py |-> FALSE]
ScriptsOnly == [swift |-> 0, js |-> 1, py |-> FALSE]
MostlySwift == [swift |-> 2, js |-> 1, py |-> TRUE]
NoFiles == [swift |-> 0, js |-> 0, py |-> FALSE]
ProjectTrees == {SwiftOnly, ScriptsOnly, MostlySwift, NoFiles}

DispatcherPrompts ==
    {<<"fix", "it">>, <<"add", "a", "Swift", "view">>, <<"the", "react", "page">>,
     <<"react", "and", "swift">>}

NoCache == [exists |-> FALSE, content |-> "", mtime |-> 0]

\* the sets of hook files that can be there under ~/.claude/hooks
HookFiles == {{}, {"visionos"}, Contexts}

CACHE_SECONDS == 3600

visionos_keywords ==
    {"visionos", "spatial", "realitykit", "arkit", "swift", "swiftui", "xcode", "immersive",
     "volumetric"}

non_visionos_keywords ==
    {"react", "vue", "angular", "node", "nodejs", "python", "java", "rust", "go", "npm", "pip",
     "cargo", "maven", "gradle", "web", "frontend", "backend", "api", "rest", "graphql"}

\* check_explicit_context: the visionOS keywords are tried first
check_explicit_context(prompt) ==
    IF \/ HasWord(prompt, visionos_keywords)
       \/ HasAdjacent(prompt, {"vision"}, {"os"})
       \/ HasAdjacent(prompt, {"reality"}, {"composer"})
       \/ HasAdjacent(prompt, {"3d"}, {"window"})
       \/ HasAdjacent(prompt, {"spatial"}, {"computing"})
    THEN "visionos"
    ELSE IF HasWord(prompt, non_visionos_keywords) THEN "default"
    ELSE "none"

\* the detection proper of detect_project_context, lines 31-88
context_of_files(files) ==
    LET has_visionos == files.swift > 0
        has_default == files.js > 0 \/ files.py
        swift_count == files.swift
        other_count == files.js
    IN  IF has_visionos /\ ~has_default THEN "visionos"
        ELSE IF has_default /\ ~has_visionos THEN "default"
        ELSE IF has_visionos /\ has_default
             THEN (IF swift_count > other_count THEN "visionos" ELSE "default")
        ELSE "default"

\* cache_age: the modification time of the working directory minus that of
\* the cache file
cache_age(cwd) == projects[cwd].mtime - contextCache.mtime

\* the cache file is there, young enough by cache_age, and not empty
cache_accepted(cwd) ==
    /\ contextCache.exists
    /\ cache_age(cwd) < CACHE_SECONDS
    /\ contextCache.content # ""

\* detect_project_context: the context and the cache file it leaves
detect_project_context(cwd) ==
    IF cache_accepted(cwd)
    THEN [context |-> contextCache.content, cached |-> TRUE, cache |-> contextCache]
    ELSE [context |-> context_of_files(projects[cwd].files), cached |-> FALSE,
          cache |-> [exists |-> TRUE, content |-> context_of_files(projects[cwd].files),
                     mtime |-> now]]

\* load_hook_module: the hook of the context is run when its file is there
load_hook_module(context, installed) ==
    LET hook == IF context = "visionos" THEN "visionos" ELSE "default"
    IN IF hook \in installed THEN {hook} ELSE {}

\* the main script on a prompt, run in the working directory cwd
DispatcherMain(cwd, prompt, installed) ==
    /\ dispatchRun.n < MaxDispatchRuns
    /\ LET explicit_context == check_explicit_context(prompt)
           detection == detect_project_context(cwd)
           context == IF explicit_context # "none" THEN explicit_context ELSE detection.context
       IN /\ contextCache' = IF explicit_context # "none" THEN contextCache ELSE detection.cache
          /\ dispatchRun' = [n |-> dispatchRun.n + 1, cwd |-> cwd, prompt |-> prompt,
                             files |-> projects[cwd].files, context |-> context,
                             detected |-> explicit_context = "none",
                             cached |-> explicit_context = "none" /\ detection.cached,
                             hooks |-> load_hook_module(context, installed), exit |-> 0]
    /\ UNCHANGED <<projects, hookVars, stdinVars, scaffoldVars, detectVars, exporterVars>>

\* files are added to or removed from a working directory; its own
\* modification time changes when this happens at its top level
WriteFiles(cwd, files, top) ==
    /\ dispatchRun.n < MaxDispatchRuns
    /\ files # projects[cwd].files
    /\ projects' = [projects EXCEPT ![cwd] =
                       [files |-> files, mtime |-> IF top THEN now ELSE @.mtime]]
    /\ UNCHANGED <<contextCache, dispatchRun, hookVars, stdinVars, scaffoldVars, detectVars,
                   exporterVars>>

InitDispatcher ==
    /\ contextCache = NoCache
    /\ projects = [cwd \in Cwds |-> [files |-> NoFiles, mtime |-> 0]]
    /\ dispatchRun = [n |-> 0, cwd |-> "none", prompt |-> <<>>, files |-> NoFiles,
                      context |-> "none",
                      detected |-> FALSE, cached |-> FALSE, hooks |-> {}, exit |-> 0]

InitOrch ==
    /\ sessionFile = [path \in SessionPaths |-> AbsentFile]
    /\ guideFile = [c \in Cwds |-> [n \in GuideFileNames |-> "text"]]
    /\ now = 0
    /\ proc = [p \in Procs |-> Idle]
    /\ runs = 0
    /\ last = [hook |-> "none"]
    /\ emitted = [path \in SessionPaths |-> [g \in GuideNames |-> 0]]
    /\ firstDebug = [path \in SessionPaths |-> "none"]
    /\ debugReady = [path \in SessionPaths |-> FALSE]
    /\ faulted = [path \in SessionPaths |-> FALSE]
    /\ wrote = {}

InitMetrics ==
    /\ metricsFile = Document("missing", 0)
    /\ metricsWritable = TRUE
    /\ trackerRun = [n |-> 0, stdin |-> "empty", tool_name |-> "none",
                     tool_input |-> InputOf(FALSE, <<>>, <<>>, <<>>, <<>>),
                     tool_response |-> ResponseOf(FALSE, <<>>, <<>>), exit |-> 0]

InitRouter ==
    routerRun = [n |-> 0, domain |-> "none", cwd |-> "w1", prompt |-> <<>>, names |-> <<>>,
                 blocks |-> <<>>, exit |-> 0]

Init ==
    /\ InitOrch /\ InitMetrics /\ InitRouter /\ InitStdin /\ InitScaffold /\ InitDetect
    /\ InitExporter /\ InitDispatcher /\ InitSessions

\* hooks/workflow-orchestrator.py and hooks/parallel.py, one invocation after
\* the other, in any of the sessions
Next ==
    \/ \E cwd \in Cwds, ppid \in Ppids, prompt \in Prompts, readOk \in BOOLEAN :
         OrchestratorBegin(1, cwd, ppid, prompt, readOk)
    \/ \E cwd \in Cwds, ppid \in Ppids, tool \in Tools, readOk \in BOOLEAN :
         ParallelBegin(1, cwd, ppid, tool, readOk)
    \/ \E writeOk \in BOOLEAN : Save(1, writeOk)
    \/ Dump(1)
    \/ \E st \in GuideFileStates : EditGuide("w1", "debug", st)

Spec == Init /\ [][Next]_vars

\* both orchestrator variants in the sessions of one workspace, with time
\* passing between invocations and every read and write succeeding
NextMacos ==
    \/ \E ppid \in Ppids, prompt \in Prompts :
         MacosOrchestratorBegin(1, "w1", ppid, prompt, TRUE)
    \/ \E ppid \in Ppids, prompt \in Prompts :
         OrchestratorBegin(1, "w1", ppid, prompt, TRUE)
    \/ Save(1, TRUE)
    \/ Dump(1)
    \/ Tick
    \/ \E st \in GuideFileStates : EditGuide("w1", "debug", st)

SpecMacos == Init /\ [][NextMacos]_vars

\* two invocations of hooks/workflow-orchestrator.py and hooks/parallel.py at a
\* time in one session, their reads and writes of the session file interleaved
NextRace ==
    \/ \E p \in Procs, prompt \in Prompts : OrchestratorBegin(p, "w1", 1, prompt, TRUE)
    \/ \E p \in Procs, tool \in Tools : ParallelBegin(p, "w1", 1, tool, TRUE)
    \/ \E p \in Procs : Save(p, TRUE)
    \/ \E p \in Procs : Dump(p)

SpecRace == Init /\ [][NextRace]_vars

\* hooks/metrics-tracker.py, one invocation after the other, the metrics file
\* changing under it between invocations
NextMetrics ==
    \/ \E stdin \in Stdins \ {"object"} :
         TrackerMain(stdin, "none", NoInput, NoResponse)
    \/ \E tool_name \in ToolNames :
         \E tool_input \in ToolInputs(tool_name), tool_response \in ToolResponses(tool_name) :
            TrackerMain("object", tool_name, tool_input, tool_response)
    \/ \E f \in MetricsFiles : ReplaceMetricsFile(f)
    \/ \E writable \in BOOLEAN : ChangeMode(writable)

SpecMetrics == Init /\ [][NextMetrics]_vars

\* the custom-reminder routers, one invocation after the other, the user
\* editing the guide files of a workspace in between
NextRouter ==
    \/ \E domain \in StackingDomains, cwd \in Cwds, prompt \in RouterPrompts :
         StackingRouterMain(domain, cwd, prompt)
    \/ \E cwd \in Cwds, prompt \in RouterPrompts : StreamdeckRouterMain(cwd, prompt)
    \/ \E name \in {"planning", "parallel", "debug"}, st \in GuideFileStates :
         EditGuide("w1", name, st)

SpecRouter == Init /\ [][NextRouter]_vars

\* any hook script started on input that is not JSON, between and during the
\* invocations of the two workflow hooks on well-formed input
NextStdin ==
    \/ \E script \in Scripts : RunOnInvalidJson(script)
    \/ \E p \in Procs, prompt \in Prompts : OrchestratorBegin(p, "w1", 1, prompt, TRUE)
    \/ \E p \in Procs, tool \in Tools : ParallelBegin(p, "w1", 1, tool, TRUE)
    \/ \E p \in Procs : Save(p, TRUE)
    \/ \E p \in Procs : Dump(p)

SpecStdin == Init /\ [][NextStdin]_vars

\* runs of the scaffolder on one workspace, and what the user does to the
\* workspace between them
NextScaffold ==
    \/ \E domain \in ScaffoldArgs, order \in HashedOrders : InitWorkspaceMain(domain, order)
    \/ AddAgent
    \/ \E key \in SettingsKeys : EditSettings(key)
    \/ \E name \in FileNames : EditFile(name)
    \/ \E project \in Projects, claudeMd \in {"absent", "plain"} : CreateProject(project, claudeMd)
    \/ InstallPackages

SpecScaffold == Init /\ [][NextScaffold]_vars

\* detect_domain applied to any of the workspaces
NextDetect ==
    \/ Populate
    \/ DetectDomain

SpecDetect == Init /\ [][NextDetect]_vars

\* the exporter and what feeds it: tracker invocations for an edit and for a
\* commit, the metrics file removed, and Claude being used
NextExporter ==
    \/ UpdateMetrics
    \/ RestartExporter
    \/ UseClaude
    \/ RemoveSessions
    \/ TrackerMain("object", "Edit", EditEvent, NoResponse)
    \/ TrackerMain("object", "Bash", CommitEvent, CommitResponse)
    \/ ReplaceMetricsFile(MissingFile)

SpecExporter == Init /\ [][NextExporter]_vars

\* the dispatcher run in either working directory, files changing and time
\* passing between the runs
NextDispatcher ==
    \/ \E cwd \in Cwds, prompt \in DispatcherPrompts, installed \in HookFiles :
         DispatcherMain(cwd, prompt, installed)
    \/ \E cwd \in Cwds, files \in ProjectTrees, top \in BOOLEAN : WriteFiles(cwd, files, top)
    \/ Tick

SpecDispatcher == Init /\ [][NextDispatcher]_vars

\* calls of calculate_real_time_from_sessions, entries being appended to the
\* session files between them
NextSessions ==
    \/ CalculateRealTime
    \/ \E name \in SessionFileNames, role \in Roles, gap \in Gaps : AppendMessage(name, role, gap)

SpecSessions == Init /\ [][NextSessions]_vars

(***************************************************************************)
(* Claims about the session record, checked under Spec.                    *)
(***************************************************************************)
\* C1 as stated: in each session, once a prompt has matched a DEBUG pattern,
\* the debug block has been printed exactly once, by the first invocation
\* whose prompt matched.
C1_DebugOnceAtFirstMatch ==
    \A path \in SessionPaths :
        firstDebug[path] # "none" =>
            emitted[path]["DEBUG"] = 1 /\ firstDebug[path] = "printed"

\* C1 amended: in a session whose record was always read and written without
\* error, the debug block has been printed exactly once if some DEBUG prompt
\* came while debug.md had content, and never otherwise.  The count is 0 before
\* the first such invocation and 1 ever after, so that invocation printed it.
C1_DebugOnceWhenGuideLoads ==
    \A path \in SessionPaths :
        ~faulted[path] =>
            emitted[path]["DEBUG"] = (IF debugReady[path] THEN 1 ELSE 0)

\* a session whose first DEBUG prompt printed nothing (debug.md was missing or
\* empty) and where a later DEBUG prompt printed the block
C1_Witness ==
    \E path \in SessionPaths :
        /\ ~faulted[path]
        /\ firstDebug[path] = "silent"
        /\ debugReady[path]
        /\ emitted[path]["DEBUG"] = 1

\* C2: in a session whose record was always read and written without error,
\* every guide block has been printed at most once, by the orchestrator and
\* the parallel hook together.
C2_EachGuideAtMostOnce ==
    \A path \in SessionPaths :
        ~faulted[path] => \A g \in GuideNames : emitted[path][g] <= 1

\* the parallel hook has just skipped PARALLEL, which the orchestrator had
\* printed in this session, and FOUNDATION was printed once
C2_Witness ==
    /\ last.hook = "parallel"
    /\ "PARALLEL" \in last.already
    /\ last.emitted = <<>>
    /\ ~faulted[last.path]
    /\ emitted[last.path]["PARALLEL"] = 1
    /\ emitted[last.path]["FOUNDATION"] = 1

\* C5: a step changes only the session file of a (cwd, ppid) that has an
\* invocation in flight; it never removes a session file; and an invocation
\* whose (cwd, ppid) has written no record yet starts from the empty set.
C5_Step ==
    /\ \A c \in Cwds, pp \in Ppids :
          (\A p \in Procs : ~(proc[p].pc # "idle" /\ <<proc[p].cwd, proc[p].ppid>> = <<c, pp>>))
              => sessionFile'[<<cwd_hash(c), pp>>] = sessionFile[<<cwd_hash(c), pp>>]
    /\ \A path \in SessionPaths :
          sessionFile[path].state # "absent" => sessionFile'[path].state # "absent"
    /\ (last' # last /\ last'.fresh) => last'.already = {}

C5_KeyedByCwdAndPpid == [][C5_Step]_vars

\* an invocation under a new ppid has just started from the empty set and
\* printed FOUNDATION, while the record of the same workspace under the other
\* ppid holds FOUNDATION
C5_Witness ==
    /\ last.hook = "orchestrator"
    /\ last.fresh
    /\ "FOUNDATION" \in Range(last.emitted)
    /\ \E pp \in Ppids :
          /\ pp # last.ppid
          /\ sessionFile[<<cwd_hash(last.cwd), pp>>].state = "json"
          /\ "FOUNDATION" \in sessionFile[<<cwd_hash(last.cwd), pp>>].injected

(***************************************************************************)
(* Claims about the freshness window, checked under SpecMacos.             *)
(***************************************************************************)
\* the guides of the stale record that the last invocation was asked for
StaleAndAsked == last.recInjected \cap last.ready

C4_NeverFailsOrBlocks ==
    /\ \A p \in Procs :
          /\ proc[p].pc = "save" => ENABLED Save(p, TRUE)
          /\ proc[p].pc = "dump" => ENABLED Dump(p)
    /\ last.hook # "none" => last.exit = 0

\* both invocations have ended and the record, written last by the parallel
\* hook, omits DEBUG, which the orchestrator printed: the update is lost
C4_Witness ==
    /\ InFlight = {}
    /\ last.hook = "parallel"
    /\ sessionFile[last.path].state = "json"
    /\ emitted[last.path]["DEBUG"] = 1
    /\ "DEBUG" \notin sessionFile[last.path].injected
    /\ "PARALLEL" \in sessionFile[last.path].injected

(***************************************************************************)
(* Claims about the metrics tracker, checked under SpecMetrics.            *)
(***************************************************************************)
\* the invocation r was given a Bash event whose command contains
\* "git commit" and whose stdout contains a '['
CommitReported(r) ==
    /\ r.n > 0 /\ r.stdin = "object" /\ r.tool_name = "Bash"
    /\ r.tool_input.dict /\ r.tool_response.dict
    /\ \E i \in 1..(Len(r.tool_input.command) - 1) :
          r.tool_input.command[i] = "git" /\ r.tool_input.command[i + 1] = "commit"
    /\ "[" \in Range(r.tool_response.stdout)

\* the counter a run starts from: the stored one, 0 when there is no document
Previous(f, key) == IF f.kind = "counters" THEN f[key] ELSE 0

C6_Step ==
    (/\ trackerRun'.n = trackerRun.n + 1
     /\ CommitReported(trackerRun')
     /\ metricsFile.kind # "nokeys"
     /\ metricsWritable)
    => /\ trackerRun'.exit = 0
       /\ metricsFile'.kind = "counters"
       /\ metricsFile'.commits_total = Previous(metricsFile, "commits_total") + 1
       /\ \A key \in CounterKeys \ {"commits_total"} :
             metricsFile'[key] = Previous(metricsFile, key)

C10_TrackerAlwaysExitsZero ==
    (/\ trackerRun.n > 0 /\ trackerRun.stdin = "object"
     /\ trackerRun.tool_input.dict /\ trackerRun.tool_response.dict)
    => trackerRun.exit = 0

(***************************************************************************)
(* Claims about the custom-reminder routers, checked under SpecRouter.     *)
(***************************************************************************)
ChecksOf(domain) == IF domain = "streamdeck" THEN StreamdeckChecks ELSE StackingChecks

\* the categories whose patterns match the prompt of run r, in the order of
\* the checks of its router
Matching(r) ==
    SelectSeq(ChecksOf(r.domain), LAMBDA c : reminder_check_patterns(r.domain, r.prompt, c))

Printed(r) == [i \in DOMAIN r.blocks |-> r.blocks[i].category]

\* C7 as stated: every router prints one block for every category that
\* matches, in the order of the checks, and nothing when none matches.
C7_EveryMatchPrinted == routerRun.n > 0 => Printed(routerRun) = Matching(routerRun)

\* C7: the routers of ios, macos and webdev print one block for every
\* category that matches, in the order of the checks, after an instruction
\* that lists the same names; the streamdeck router prints the block of the
\* first category that matches and no other; no router prints anything when
\* no category matches.
C7_StackedOrFirstMatch ==
    routerRun.n > 0 =>
        IF routerRun.domain = "streamdeck"
        THEN Printed(routerRun) = SubSeq(Matching(routerRun), 1,
                                         IF Matching(routerRun) = <<>> THEN 0 ELSE 1)
        ELSE Printed(routerRun) = Matching(routerRun) /\ routerRun.names = Matching(routerRun)

\* a prompt that matched two categories got both blocks, DEBUG first
C7_Witness ==
    /\ routerRun.n > 0
    /\ routerRun.domain \in StackingDomains
    /\ Printed(routerRun) = <<"DEBUG", "INVESTIGATION">>

\* the categories that have a *_PROMPT_FALLBACK constant
WithFallback == {"DEBUG", "INVESTIGATION", "IMPLEMENTATION", "PLANNING"}

C8_Step ==
    (routerRun'.n = routerRun.n + 1 /\ routerRun'.domain \in StackingDomains) =>
        \A i \in DOMAIN routerRun'.blocks :
            LET block == routerRun'.blocks[i]
                file == guideFile[routerRun'.cwd][ReminderGuideFile(block.category)]
            IN block.category \in WithFallback =>
                  block.content = IF file # "absent"
                                  THEN FromFile(ReminderGuideFile(block.category), file)
                                  ELSE Fallback(block.category)

\* C8 as stated, for the routers of ios, macos and webdev: the block of a
\* matched category carries what its guide file holds when the file can be
\* read and the fallback constant of the same category when it cannot.
C8_GuideOrOwnFallback == [][C8_Step]_vars

C9_Step == routerRun' # routerRun => UNCHANGED <<guideFile, sessionFile, metricsFile>>

\* C9: a router invocation leaves every file as it found it: the guide files,
\* the session records and the metrics file are the same after it as before.
C9_RoutersWriteNoFile == [][C9_Step]_vars

\* a router has read a guide file and printed it, and another guide it asked
\* for is still missing
C9_Witness ==
    /\ routerRun.n > 0
    /\ Len(routerRun.blocks) = 2
    /\ routerRun.blocks[1].content.from = "file"
    /\ routerRun.blocks[2].content.from = "fallback"
    /\ guideFile[routerRun.cwd][ReminderGuideFile(routerRun.blocks[2].category)] = "absent"

C12_Step ==
    (/\ trackerRun'.n = trackerRun.n + 1
     /\ trackerRun'.stdin = "object"
     /\ trackerRun'.tool_input.dict
     /\ metricsFile.kind # "nokeys")
    => trackerRun'.exit = 0

\* C12 as stated, for the metrics tracker, checked under SpecMetrics: an
\* invocation that cannot read, parse or write the metrics file still ends
\* with its normal exit code 0.
C12_TrackerCacheErrorsIgnored == [][C12_Step]_vars

(***************************************************************************)
(* Claims about the workspace scaffolder, checked under SpecScaffold.      *)
(***************************************************************************)

\* a successful run of the scaffolder for the domain of the successful run
\* before it, on the workspace as that run left it
RepeatedRun ==
    /\ initRun.n > 0 /\ initRun.untouched /\ initRun.exit = 0
    /\ initRun'.n = initRun.n + 1
    /\ initRun'.domain = initRun.domain
    /\ initRun'.exit = 0

C13_Step == RepeatedRun => workspace' = workspace

\* C13: running the scaffolder twice in a row with the same domain on the
\* same target, with no change in between, leaves every file of the
\* workspace with the content it had after the first run.
C13_SecondRunChangesNothing == [][C13_Step]_vars

\* a run of the scaffolder that went through to the end
SuccessfulRun == initRun'.n = initRun.n + 1 /\ initRun'.exit = 0

C14_AllKept ==
    SuccessfulRun =>
        /\ workspace.userAgent => workspace'.userAgent
        /\ workspace.settings.exists => workspace'.settings = workspace.settings
        /\ workspace.marker.exists => workspace'.marker = workspace.marker
        /\ workspace.gitignore.exists => workspace'.gitignore = workspace.gitignore
        /\ \A name \in FileNames :
              workspace.files[name] # "absent" => workspace'.files[name] = workspace.files[name]

C14_Step ==
    SuccessfulRun =>
        /\ \A name \in ProjectFiles :
              workspace.files[name] # "absent" => workspace'.files[name] = workspace.files[name]
        /\ workspace'.folders = initRun'.domain /\ ~workspace'.userAgent
        /\ workspace'.settings.template = initRun'.domain
        /\ workspace'.settings.hooks = "template"
        /\ workspace.settings.permissions \subseteq workspace'.settings.permissions
        /\ workspace'.settings.custom = workspace.settings.custom
        /\ workspace'.marker.domain = initRun'.domain
        /\ workspace.gitignore.patterns \subseteq workspace'.gitignore.patterns

C16_Step ==
    (SuccessfulRun /\ workspace.marker.exists) =>
        /\ workspace'.marker.initialized = workspace.marker.initialized
        /\ workspace.marker.build_settings_configured => workspace'.marker.build_settings_configured
        /\ workspace.marker.debug_icons_generated => workspace'.marker.debug_icons_generated
        /\ workspace.marker.template_versions \subseteq workspace'.marker.template_versions

\* C16: re-initializing a workspace keeps the configuration state of the
\* existing domain.json: the initialized timestamp, the flags
\* build_settings_configured and debug_icons_generated that were true and
\* the recorded template_versions entries are still there after the run.
C16_MarkerStatePreserved == [][C16_Step]_vars

(***************************************************************************)
(* Claim about detect_domain, checked under SpecDetect.                    *)
(***************************************************************************)

\* the only domain indicators of the workspace are Swift files and a
\* RealityKitContent directory
OnlySwiftAndRealityKitContent ==
    /\ tree.swift /\ tree.RealityKitContent
    /\ ~tree.xcodeproj /\ ~tree.xcworkspace
    /\ tree.others = {}

\* C15: for a workspace whose only domain indicators are *.swift files and a
\* RealityKitContent directory detect_domain returns 'visionos', never 'ios',
\* whatever the Swift files contain.
C15_RealityKitContentMeansVisionos ==
    (detected # "none" /\ OnlySwiftAndRealityKitContent) => detected = "visionos"

\* detect_domain has returned for such a workspace whose Swift files use UIKit
C15_Witness ==
    /\ detected = "visionos" /\ OnlySwiftAndRealityKitContent
    /\ "import UIKit" \in tree.markers /\ "import RealityKit" \notin tree.markers

(***************************************************************************)
(* Claim about the metrics exporter, checked under SpecExporter.           *)
(***************************************************************************)

C17_Step ==
    (exporter.updates = 0 /\ exporter'.updates = 1 /\ exporter'.pid = exporter.pid) =>
        \A key \in DeltaKeys :
            /\ exporter.previous[key] = 0
            /\ exporter'.counter[key] - exporter.counter[key] = SourceValue(key)

\* C17: the delta baseline lives only in memory: in the first update_metrics
\* call after a process start every previous value is taken as 0, so each
\* delta counter is incremented by the full current total of its source,
\* not by the change since the last update made before the restart.
C17_FirstUpdateCountsFullTotal == [][C17_Step]_vars

\* a restarted exporter has made its first update, and its commit counter
\* went up by the total, which is more than the commits made since the last
\* update of the process before it
C17_Witness ==
    /\ exporter.pid = 2 /\ exporter.updates = 1
    /\ exporter.before["commits"] > 0
    /\ exporter.counter["commits"] = exporter.gauge["commits"]
    /\ exporter.counter["commits"] > exporter.gauge["commits"] - exporter.before["commits"]

(***************************************************************************)
(* Claims about the context dispatcher, checked under SpecDispatcher.      *)
(***************************************************************************)

\* an invocation of the dispatcher, and one that had to detect the context
Dispatched == dispatchRun'.n = dispatchRun.n + 1
Detecting == Dispatched /\ dispatchRun'.detected

\* the context the claims speak of: the one the prompt names, or else the
\* one the files of the working directory give
SelectedContext(prompt, files) ==
    IF check_explicit_context(prompt) # "none" THEN check_explicit_context(prompt)
    ELSE context_of_files(files)

C18_Step ==
    Dispatched =>
        /\ Cardinality(dispatchRun'.hooks) <= 1
        /\ dispatchRun'.hooks \subseteq {SelectedContext(dispatchRun'.prompt, dispatchRun'.files)}

\* C18: one invocation of the dispatcher runs at most one context hook, the
\* hook of the selected context: the context the prompt names, and without
\* one the context detected from the project files.
C18_OnlyHookOfSelectedContext == [][C18_Step]_vars

C19_Step ==
    (Detecting /\ contextCache.exists /\ contextCache.content # "") =>
        /\ dispatchRun'.cached <=> now - contextCache.mtime < CACHE_SECONDS
        /\ ~dispatchRun'.cached =>
              /\ dispatchRun'.context = context_of_files(dispatchRun'.files)
              /\ contextCache' = [exists |-> TRUE, content |-> dispatchRun'.context, mtime |-> now]

\* C19: the cached context is returned only while the cache file was
\* written less than 3600 seconds ago; an older cache makes
\* detect_project_context detect from the project files and rewrite the cache.
C19_CacheValidOneHour == [][C19_Step]_vars

C20_Step ==
    (Detecting /\ dispatchRun.detected) =>
        /\ dispatchRun'.files = dispatchRun.files => dispatchRun'.context = dispatchRun.context
        /\ dispatchRun'.cwd # dispatchRun.cwd =>
              dispatchRun'.context = context_of_files(dispatchRun'.files)

\* C20: the context detect_project_context returns for a workspace depends
\* on that workspace's files alone: runs over workspaces with the same files
\* return the same context, and a detection made before in a different
\* workspace does not change the result.
C20_ContextOfWorkspaceFilesAlone == [][C20_Step]_vars

(***************************************************************************)
(* Claims about the counters of the metrics tracker, checked under         *)
(* SpecMetrics.                                                            *)
(***************************************************************************)
\* a tracker invocation starts and ends in this step
Tracked == trackerRun'.n = trackerRun.n + 1

\* the metrics file holds its counters (or is absent or unparseable, which
\* counts as all zeros) and can be written
Usable == metricsFile.kind # "nokeys" /\ metricsWritable

\* counter key is k higher after the step than the run found it: a file that
\* was not rewritten has every counter raised by 0
Raised(key, k) ==
    IF metricsFile' = metricsFile THEN k = 0
    ELSE metricsFile'[key] = Previous(metricsFile, key) + k

C21_Step ==
    (/\ Tracked /\ Usable
     /\ trackerRun'.stdin = "object" /\ trackerRun'.tool_input.dict)
    => LET o == count_lines(trackerRun'.tool_input.old_string)
           n == count_lines(trackerRun'.tool_input.new_string)
       IN /\ trackerRun'.tool_name = "Edit" =>
                /\ metricsFile'.kind = "counters"
                /\ Raised("files_modified", 1)
                /\ Raised("lines_added", IF n > o THEN n - o ELSE 0)
                /\ Raised("lines_removed", IF o > n THEN o - n ELSE 0)
          /\ trackerRun'.tool_name = "Write" =>
                /\ metricsFile'.kind = "counters"
                /\ Raised("files_modified", 1)
                /\ Raised("lines_added", count_lines(trackerRun'.tool_input.content))
                /\ Raised("lines_removed", 0)

BashEvent(r) == r.stdin = "object" /\ r.tool_name = "Bash" /\ r.tool_input.dict

StdoutOf(r) == IF r.tool_response.dict THEN r.tool_response.stdout ELSE <<>>
StderrOf(r) == IF r.tool_response.dict THEN r.tool_response.stderr ELSE <<>>

\* stdout carries a success marker: a '[' or "create mode"
SuccessMarker(r) ==
    "[" \in Range(StdoutOf(r)) \/ HasAdjacent(StdoutOf(r), {"create"}, {"mode"})

\* the two conditions under which the claim has git_failures incremented
FailureReported(r) ==
    \/ /\ GitCommitIn(r.tool_input.command)
       /\ ~SuccessMarker(r)
       /\ HasWord(StderrOf(r), {"error"})
    \/ /\ StartsWithGit(r.tool_input.command)
       /\ ~GitCommitIn(r.tool_input.command)
       /\ HasWord(StderrOf(r), {"error", "fatal"})

CommitCounted(r) == GitCommitIn(r.tool_input.command) /\ SuccessMarker(r)

C22_Step ==
    (Tracked /\ Usable /\ BashEvent(trackerRun'))
    => /\ Raised("commits_total", IF CommitCounted(trackerRun') THEN 1 ELSE 0)
       /\ Raised("git_failures", IF FailureReported(trackerRun') THEN 1 ELSE 0)
       /\ ~(CommitCounted(trackerRun') /\ FailureReported(trackerRun'))

C22_FailedStep ==
    (/\ Tracked /\ Usable /\ BashEvent(trackerRun')
     /\ GitCommitIn(trackerRun'.tool_input.command)
     /\ HasWord(StderrOf(trackerRun'), {"error"}))
    => Raised("commits_total", 0)

Stored(f, key) == IF f.kind \in {"counters", "unreadable"} THEN f[key] ELSE 0

\* the run r was given an event that no branch of main counts
NothingToCount(r) ==
    \/ r.stdin # "object"
    \/ r.tool_name \notin {"Edit", "Write", "Bash"}
    \/ BashEvent(r) /\ ~CommitCounted(r) /\ ~FailureReported(r)

C23_Frame == (Tracked /\ NothingToCount(trackerRun')) => metricsFile' = metricsFile

\* the frame half of C23: an invocation whose tool is none of Edit, Write and
\* Bash, or a Bash event that matches no git condition, leaves the metrics
\* file as it is, last_updated included
C23_UncountedEventWritesNothing == [][C23_Frame]_vars

C23_Step ==
    /\ C23_Frame
    /\ Tracked => Stored(metricsFile', "commands_blocked") = Stored(metricsFile, "commands_blocked")

\* C23: an invocation whose tool is none of Edit, Write and Bash, or a Bash
\* event that matches no git condition, leaves the metrics file completely
\* unchanged; and no tracker invocation changes commands_blocked.
C23_FrameAndCommandsBlocked == [][C23_Step]_vars

C24_Step ==
    Tracked => \A key \in CounterKeys : Stored(metricsFile', key) >= Stored(metricsFile, key)

\* C24: every counter stored in the metrics file is non-decreasing from one
\* tracker invocation to the next, including across invocations that find the
\* file unreadable or not valid JSON.
C24_CountersNeverDecrease == [][C24_Step]_vars

(***************************************************************************)
(* Claims about the metrics exporter's session times, checked under        *)
(* SpecSessions.                                                           *)
(***************************************************************************)
\* the CLI time and the user time of the main session files as they are
CliTimeOfFiles ==
    SumOver(session_files, [name \in SessionFileNames |-> session_cli(projectSessions[name])])
UserTimeOfFiles ==
    SumOver(session_files, [name \in SessionFileNames |-> session_user(projectSessions[name])])

C25_Step ==
    timeRun'.n = timeRun.n + 1 =>
        /\ timeRun'.cli_time = CliTimeOfFiles
        /\ timeRun'.user_time = UserTimeOfFiles

\* C25: whatever calls and appended entries came before, a call of
\* calculate_real_time_from_sessions returns the sums, over the main session
\* files as they are at the call, of the gaps of at most 1800 seconds between
\* consecutive entries: user followed by assistant as CLI time, assistant
\* followed by user as user time.
C25_TotalsAreSumsOverFiles == [][C25_Step]_vars

(***************************************************************************)
(* Claims about the delta counters of one exporter process, checked under  *)
(* SpecExporter.                                                           *)
(***************************************************************************)
\* update_metrics is called in this step
Updated == exporter'.updates = exporter.updates + 1 /\ exporter'.pid = exporter.pid

\* the positive part of the change of the source of key since the last update
PositiveChange(key) ==
    IF SourceValue(key) > exporter.seen[key] THEN SourceValue(key) - exporter.seen[key] ELSE 0

C26_Step ==
    Updated =>
        \A key \in DeltaKeys :
            /\ exporter'.counter[key] >= exporter.counter[key]
            /\ exporter'.counter[key] = exporter.counter[key] + PositiveChange(key)
            /\ (exporter.counter[key] = exporter.seen[key] /\ SourceValue(key) >= exporter.seen[key])
                  => exporter'.counter[key] = exporter'.gauge[key]

\* C26: within one exporter process every update_metrics call leaves each
\* delta counter at least as high as it was, and higher by the positive part
\* of the change of its source value since the update before (since 0 at the
\* first update); a counter that equalled its source so far, and whose source
\* has not decreased, equals the matching gauge after the update.
C26_CountersSumPositiveChanges == [][C26_Step]_vars

C26_ActivityStep ==
    Updated =>
        \A key \in DeltaKeys :
            /\ exporter'.counter[key] >= exporter.counter[key]
            /\ key \notin {"token", "cost"} =>
                  /\ exporter'.counter[key] = exporter.counter[key] + PositiveChange(key)
                  /\ (exporter.counter[key] = exporter.seen[key]
                      /\ SourceValue(key) >= exporter.seen[key])
                        => exporter'.counter[key] = exporter'.gauge[key]

\* what holds of C26: no delta counter ever decreases, and the time and
\* activity counters, whose sources are read in every update, grow by the
\* positive changes of their sources.
C26_ActivityCountersSumPositiveChanges == [][C26_ActivityStep]_vars

====
